---------------------------- MODULE Spec2Model ----------------------------
(***************************************************************************)
(* Concurrent Petri-net kernel of the manufacturing line                   *)
(* (petri_net.c, manufacturing_process.c, tasks.c, status_server.c and the *)
(* keyboard hook of main_blinky.c).                                        *)
(*                                                                         *)
(* One step of the model is one access to shared memory: a take or give of *)
(* net_mutex, one read or read-modify-write of places[p].tokens (each is   *)
(* bracketed by that place's own mutex in the source, so it is atomic), or *)
(* one atomic_store of status_dirty.  Local computation between two shared *)
(* accesses belongs to the step of the access it follows.  Tasks interleave *)
(* arbitrarily (parallel workers with preemption); delays only let other   *)
(* tasks run.                                                              *)
(***************************************************************************)
EXTENDS Integers, Sequences, FiniteSets, TLC

\* ------------------------------------------------------------------ sizes
MAX_PLACES == 15
MAX_TRANSITIONS == 20
ARC_SLOTS == 5

\* Bounds of the exploration (not program constants).
MaxLoads == 2
MaxKeys == 1
MaxRequests == 1
MaxTokens == 2

PlaceIdx == 0 .. (MAX_PLACES - 1)
TransIdx == 0 .. (MAX_TRANSITIONS - 1)
SlotIdx == 0 .. (ARC_SLOTS - 1)

\* ------------------------------------------------- indices of the line
P_RAW_MATERIAL == 0
P_READY_TO_PROCESS == 1
P_PROCESSING == 2
P_PROCESSED == 3
P_READY_TO_ASSEMBLE == 4
P_ASSEMBLED == 5
P_QUALITY_CHECK_1 == 6
P_POST_QC1_BUFFER == 7
P_READY_FOR_INDIVIDUAL_PACKAGE == 8
P_INDIVIDUALLY_PACKAGED == 9
P_FINAL_PACKAGED == 10
P_PAINTED == 11
P_QUALITY_CHECK_2 == 12
P_WORKER == 13
P_REWORK_BIN == 14

T_LOAD_MATERIAL == 0
T_START_PROCESSING == 1
T_FINISH_PROCESSING == 2
T_START_ASSEMBLY == 3
T_FINISH_ASSEMBLY == 4
T_START_QC_1 == 5
T_PASS_QC_1 == 6
T_FAIL_QC_1 == 7
T_SELECT_TO_PAINT == 8
T_SKIP_PAINT == 9
T_START_QC_2 == 10
T_PASS_QC_2 == 11
T_FAIL_QC_2 == 12
T_INDIVIDUAL_PACKAGE == 13
T_BULK_PACKAGE == 14
T_REWORK_PROCESS == 15

\* ------------------------------------------------------------ the tasks
NoTask == "none"
Workers == {"MaterialLoader", "Processor", "Assembler", "PainterRouter",
            "QualityControl", "Reworker", "Packager"}
Callers == {"Caller1", "Caller2"}
Tasks == Workers \cup {"StatusServer", "Keyboard"} \cup Callers

VARIABLES
    manufacturing_net,  \* the PetriNet struct: places, transitions, counts, net_mutex
    status_dirty,       \* atomic_bool status_dirty
    pc,                 \* pc[k]: the statement of task k's function it is at
    frame,              \* frame[k]: position inside the kernel call k is executing
    payload,            \* token counts build_status_payload has written so far
    loaded,             \* successful Load Material fires (bounded by MaxLoads)
    qc,                 \* task_quality_control's start/pass/fail_transition
    keys,               \* keystroke events delivered (bounded by MaxKeys)
    injected,           \* '+' events whose token has been added
    requests,           \* status requests accepted (bounded by MaxRequests)
    fire_pre,           \* history: the marking when the holder of net_mutex took it
    serial,             \* history: marking of the serial history of fires and injections
    serial_ok,          \* history: every committed fire was enabled in `serial`
    cands,              \* history: serial markings of this build that match the payload
    snap_ok,            \* history: the last finished payload equals one serial marking
    snap_inj,           \* history: injections done when the current build began
    snap_loaded,        \* history: value of `loaded` when the current build began
    checked,            \* history: checked[k] = t while k's last is_transition_enabled(t)
                        \*   returned true and no other task's fire has moved a token since
    ret,                \* the last builder call and the value it returned
                        \*   (of add_arc_input/add_arc_output, which return
                        \*   nothing, the arguments)
    arg,                \* arg[k]: the transition a caller of the kernel has chosen
    place_mutex         \* place_mutex[p]: the task holding places[p].mutex

vars == <<manufacturing_net, status_dirty, pc, frame, payload, loaded, qc, keys,
          injected, requests, fire_pre, serial, serial_ok, cands, snap_ok, snap_inj, snap_loaded,
          checked, ret, arg, place_mutex>>

\* What the kernel calls leave alone: the tasks' own variables.
taskVars == <<payload, loaded, qc, keys, injected, requests, snap_ok, snap_inj, snap_loaded, ret, arg>>

\* ------------------------------------------------------ petri_net.c: setup
NoCall == [call |-> "none", value |-> 0]

NoArcs == [j \in SlotIdx |-> -1]
NoWeights == [j \in SlotIdx |-> 0]

init_petri_net ==
    [ places |-> [i \in PlaceIdx |-> [tokens |-> 0, name |-> ""]],
      transitions |-> [i \in TransIdx |->
          [ input_places |-> NoArcs, output_places |-> NoArcs,
            input_weights |-> NoWeights, output_weights |-> NoWeights,
            name |-> "", enabled |-> FALSE ]],
      num_places |-> 0,
      num_transitions |-> 0,
      net_mutex |-> NoTask ]

\* The value add_place returns.
add_place_ret(net) ==
    IF net.num_places >= MAX_PLACES THEN -1 ELSE net.num_places

\* add_place without its capacity test.
add_place_NoCap(net, name, initial_tokens) ==
    [net EXCEPT !.places[net.num_places] =
                    [tokens |-> initial_tokens, name |-> name],
                !.num_places = @ + 1]

add_place(net, name, initial_tokens) ==
    IF net.num_places >= MAX_PLACES
    THEN net
    ELSE [net EXCEPT !.places[net.num_places] =
                         [tokens |-> initial_tokens, name |-> name],
                     !.num_places = @ + 1]

add_transition_ret(net) ==
    IF net.num_transitions >= MAX_TRANSITIONS THEN -1 ELSE net.num_transitions

add_transition(net, name) ==
    IF net.num_transitions >= MAX_TRANSITIONS
    THEN net
    ELSE [net EXCEPT !.transitions[net.num_transitions].name = name,
                     !.num_transitions = @ + 1]

\* The first slot holding -1, or ARC_SLOTS when the scan finds none.
\* The slot the loop of add_arc_input/add_arc_output stops at: the first one
\* that holds -1, or ARC_SLOTS when the loop runs to its end.
FirstFree_Wrap(slots) ==
    IF \E i \in SlotIdx : slots[i] = -1
    THEN CHOOSE i \in SlotIdx :
             slots[i] = -1 /\ \A j \in SlotIdx : j < i => slots[j] # -1
    ELSE ARC_SLOTS - 1

FirstFree(slots) ==
    IF \E i \in SlotIdx : slots[i] = -1
    THEN CHOOSE i \in SlotIdx :
             slots[i] = -1 /\ \A j \in SlotIdx : j < i => slots[j] # -1
    ELSE ARC_SLOTS

add_arc_input(net, trans_idx, place_idx, weight) ==
    LET i == FirstFree(net.transitions[trans_idx].input_places)
    IN  IF i = ARC_SLOTS
        THEN net
        ELSE [net EXCEPT !.transitions[trans_idx].input_places[i] = place_idx,
                         !.transitions[trans_idx].input_weights[i] = weight]

add_arc_output(net, trans_idx, place_idx, weight) ==
    LET i == FirstFree(net.transitions[trans_idx].output_places)
    IN  IF i = ARC_SLOTS
        THEN net
        ELSE [net EXCEPT !.transitions[trans_idx].output_places[i] = place_idx,
                         !.transitions[trans_idx].output_weights[i] = weight]

\* One builder call, as a record, applied to a net.  Build applies the calls
\* in program order, each one to the net the calls before it have left (the
\* first half of a sequence is evaluated before the second is applied to it).
ApplyCall(net, c) ==
    CASE c.op = "place" -> add_place(net, c.name, c.n)
      [] c.op = "trans" -> add_transition(net, c.name)
      [] c.op = "in"    -> add_arc_input(net, c.t, c.p, c.n)
      [] c.op = "out"   -> add_arc_output(net, c.t, c.p, c.n)

RECURSIVE Build(_, _)
Build(net, calls) ==
    IF Len(calls) = 0 THEN net
    ELSE IF Len(calls) = 1 THEN ApplyCall(net, calls[1])
    ELSE LET half == Len(calls) \div 2
             built == Build(net, SubSeq(calls, 1, half))
         IN  IF built.num_places >= 0
             THEN Build(built, SubSeq(calls, half + 1, Len(calls)))
             ELSE built

PlaceCall(name, n) == [op |-> "place", name |-> name, n |-> n]
TransCall(name) == [op |-> "trans", name |-> name]
InCall(t, p, w) == [op |-> "in", t |-> t, p |-> p, n |-> w]
OutCall(t, p, w) == [op |-> "out", t |-> t, p |-> p, n |-> w]

\* ------------------------------------ manufacturing_process.c: the line
SetupCalls ==
    << PlaceCall("Raw Material", 20),
       PlaceCall("Ready to Process", 0),
       PlaceCall("Processing", 0),
       PlaceCall("Processed", 0),
       PlaceCall("Ready to Assemble", 0),
       PlaceCall("Assembled", 0),
       PlaceCall("QC Active 1", 0),
       PlaceCall("Passed QC1 / Decision", 0),
       PlaceCall("Ready for Individual Package", 0),
       PlaceCall("Individually Packaged", 0),
       PlaceCall("Final Packaged", 0),
       PlaceCall("Painted", 0),
       PlaceCall("QC Active 2", 0),
       PlaceCall("Worker", 3),
       PlaceCall("Rework Bin", 0),
       TransCall("Load Material"),
       InCall(T_LOAD_MATERIAL, P_RAW_MATERIAL, 1),
       OutCall(T_LOAD_MATERIAL, P_READY_TO_PROCESS, 1),
       TransCall("Start Processing"),
       InCall(T_START_PROCESSING, P_READY_TO_PROCESS, 1),
       OutCall(T_START_PROCESSING, P_PROCESSING, 1),
       TransCall("Finish Processing"),
       InCall(T_FINISH_PROCESSING, P_PROCESSING, 1),
       OutCall(T_FINISH_PROCESSING, P_PROCESSED, 1),
       TransCall("Start Assembly"),
       InCall(T_START_ASSEMBLY, P_PROCESSED, 2),
       OutCall(T_START_ASSEMBLY, P_READY_TO_ASSEMBLE, 2),
       TransCall("Finish Assembly"),
       InCall(T_FINISH_ASSEMBLY, P_READY_TO_ASSEMBLE, 2),
       OutCall(T_FINISH_ASSEMBLY, P_ASSEMBLED, 1),
       TransCall("Start QC 1"),
       InCall(T_START_QC_1, P_ASSEMBLED, 1),
       InCall(T_START_QC_1, P_WORKER, 1),
       OutCall(T_START_QC_1, P_QUALITY_CHECK_1, 1),
       TransCall("Pass QC 1"),
       InCall(T_PASS_QC_1, P_QUALITY_CHECK_1, 1),
       OutCall(T_PASS_QC_1, P_POST_QC1_BUFFER, 1),
       OutCall(T_PASS_QC_1, P_WORKER, 1),
       TransCall("Fail QC 1"),
       InCall(T_FAIL_QC_1, P_QUALITY_CHECK_1, 1),
       OutCall(T_FAIL_QC_1, P_REWORK_BIN, 1),
       OutCall(T_FAIL_QC_1, P_WORKER, 1),
       TransCall("Select to Paint"),
       InCall(T_SELECT_TO_PAINT, P_POST_QC1_BUFFER, 1),
       OutCall(T_SELECT_TO_PAINT, P_PAINTED, 1),
       TransCall("Skip Paint"),
       InCall(T_SKIP_PAINT, P_POST_QC1_BUFFER, 1),
       OutCall(T_SKIP_PAINT, P_READY_FOR_INDIVIDUAL_PACKAGE, 1),
       TransCall("Start QC 2"),
       InCall(T_START_QC_2, P_PAINTED, 1),
       InCall(T_START_QC_2, P_WORKER, 1),
       OutCall(T_START_QC_2, P_QUALITY_CHECK_2, 1),
       TransCall("Pass QC 2"),
       InCall(T_PASS_QC_2, P_QUALITY_CHECK_2, 1),
       OutCall(T_PASS_QC_2, P_READY_FOR_INDIVIDUAL_PACKAGE, 1),
       OutCall(T_PASS_QC_2, P_WORKER, 1),
       TransCall("Fail QC 2"),
       InCall(T_FAIL_QC_2, P_QUALITY_CHECK_2, 1),
       OutCall(T_FAIL_QC_2, P_REWORK_BIN, 1),
       OutCall(T_FAIL_QC_2, P_WORKER, 1),
       TransCall("Individual Package"),
       InCall(T_INDIVIDUAL_PACKAGE, P_READY_FOR_INDIVIDUAL_PACKAGE, 1),
       OutCall(T_INDIVIDUAL_PACKAGE, P_INDIVIDUALLY_PACKAGED, 1),
       TransCall("Bulk Package"),
       InCall(T_BULK_PACKAGE, P_INDIVIDUALLY_PACKAGED, 5),
       OutCall(T_BULK_PACKAGE, P_FINAL_PACKAGED, 1),
       TransCall("Rework Process"),
       InCall(T_REWORK_PROCESS, P_REWORK_BIN, 1),
       InCall(T_REWORK_PROCESS, P_WORKER, 1),
       OutCall(T_REWORK_PROCESS, P_PROCESSED, 1),
       OutCall(T_REWORK_PROCESS, P_WORKER, 1) >>

setup_manufacturing_process == Build(init_petri_net, SetupCalls)

\* The marking setup_manufacturing_process gives the line.
SetupMarking == [p \in PlaceIdx |-> setup_manufacturing_process.places[p].tokens]


\* ------------------------------------------------------------ the marking
Tokens == [p \in PlaceIdx |-> manufacturing_net.places[p].tokens]
NoMarking == [p \in PlaceIdx |-> -1]

HasIn(t, i) ==
    i < ARC_SLOTS /\ manufacturing_net.transitions[t].input_places[i] # -1
HasOut(t, i) ==
    i < ARC_SLOTS /\ manufacturing_net.transitions[t].output_places[i] # -1

\* The arcs the loops of fire_transition visit: the slots before the first -1.
InSlots(t) == {i \in SlotIdx : \A j \in 0 .. i : HasIn(t, j)}
OutSlots(t) == {i \in SlotIdx : \A j \in 0 .. i : HasOut(t, j)}

\* ---------------------------------------- the Petri-net firing rule
\* (the vocabulary of the claims: a transition is enabled in marking m iff
\* every input arc (p, w) has m[p] >= w; firing it adds, place by place, the
\* output weights minus the input weights, all at once)
RECURSIVE InSum(_, _, _)
InSum(t, p, i) ==
    IF ~HasIn(t, i) THEN 0
    ELSE (IF manufacturing_net.transitions[t].input_places[i] = p
          THEN manufacturing_net.transitions[t].input_weights[i] ELSE 0)
         + InSum(t, p, i + 1)

RECURSIVE OutSum(_, _, _)
OutSum(t, p, i) ==
    IF ~HasOut(t, i) THEN 0
    ELSE (IF manufacturing_net.transitions[t].output_places[i] = p
          THEN manufacturing_net.transitions[t].output_weights[i] ELSE 0)
         + OutSum(t, p, i + 1)

Enabled(m, t) ==
    \A i \in InSlots(t) :
        m[manufacturing_net.transitions[t].input_places[i]]
            >= manufacturing_net.transitions[t].input_weights[i]

AtomicFire(m, t) ==
    [p \in PlaceIdx |-> m[p] + OutSum(t, p, 0) - InSum(t, p, 0)]

\* ------------------------------------------------ petri_net.c: the kernel
Idle == [t |-> -1, ph |-> "call", i |-> 0]
At(t, ph, i) == [t |-> t, ph |-> ph, i |-> i]

\* xSemaphoreTake(net_mutex, portMAX_DELAY) returns only when the mutex is free.
NetMutexFree_NoWait == TRUE
NetMutexFree == manufacturing_net.net_mutex = NoTask

\* `available < required` of is_transition_enabled.
Insufficient_Never(available, required) == FALSE
Insufficient(available, required) == available < required

\* `tokens -= weight` and `tokens += weight` of fire_transition.
Debit_One(tokens, weight) == tokens - 1
Debit(tokens, weight) == tokens - weight
Credit_OneMore(tokens, weight) == tokens + weight + 1
Credit(tokens, weight) == tokens + weight

\* The loop of is_transition_enabled(t) at slot i: "true" and "false" are the
\* value it returns there, "more" means it goes on to slot i + 1.
is_transition_enabled(t, i) ==
    IF ~HasIn(t, i) THEN "true"
    ELSE LET place_idx == manufacturing_net.transitions[t].input_places[i]
             required == manufacturing_net.transitions[t].input_weights[i]
             available == manufacturing_net.places[place_idx].tokens
         IN  IF Insufficient(available, required) THEN "false"
             ELSE IF HasIn(t, i + 1) THEN "more" ELSE "true"

get_place_tokens_Stale(place_idx) == SetupMarking[place_idx]
get_place_tokens(place_idx) == manufacturing_net.places[place_idx].tokens

\* The store of a token count: places[place_idx].tokens = tokens.
StoreTokens_OffEnd(net, place_idx, tokens) ==
    [net EXCEPT !.places[place_idx].tokens = tokens,
                !.transitions[0].input_weights[0] = tokens]

StoreTokens(net, place_idx, tokens) ==
    [net EXCEPT !.places[place_idx].tokens = tokens]

\* Where fire_transition(t) stands once its enablement check has passed.
AfterCheck(t) ==
    IF HasIn(t, 0) THEN At(t, "dec", 0)
    ELSE IF HasOut(t, 0) THEN At(t, "inc", 0) ELSE At(t, "give", 0)

\* The status payload under construction, and the serial markings it may show.
Building == pc["StatusServer"] = "build"
Agrees(m) == \A j \in 1 .. Len(payload) : m[j - 1] = payload[j]
Hold(m) == IF Building /\ Agrees(m) THEN cands \cup {m} ELSE cands

\* A token moved by task k's fire ends what the other tasks' checks have shown.
Moved(k) == [j \in Tasks |-> IF j = k THEN checked[j] ELSE -1]

\* One step of a call of is_transition_enabled(t) made by task k outside fire.
call_is_transition_enabled(k, t, pcTrue, pcFalse) ==
    LET r == is_transition_enabled(t, frame[k].i)
    IN  /\ frame' = [frame EXCEPT ![k] =
                        IF r = "more" THEN At(t, "check", frame[k].i + 1) ELSE Idle]
        /\ pc' = [pc EXCEPT ![k] =
                        IF r = "true" THEN pcTrue
                        ELSE IF r = "false" THEN pcFalse ELSE @]
        /\ checked' = [checked EXCEPT ![k] =
                        IF r = "true" THEN t ELSE IF r = "false" THEN -1 ELSE @]
        /\ UNCHANGED <<manufacturing_net, status_dirty, fire_pre, serial,
                       serial_ok, cands>>

\* One step of fire_transition by task k; t is the argument of the call (read
\* when the call starts, kept in the frame afterwards).
fire_transition(k, t, pcTrue, pcFalse) ==
    LET f == frame[k]
        tr == manufacturing_net.transitions[f.t]
    IN  CASE f.ph = "call" ->
                 \* xSemaphoreTake(net_mutex), then the loop of the check up
                 \* to its first read
                 /\ NetMutexFree
                 /\ manufacturing_net' = [manufacturing_net EXCEPT !.net_mutex = k]
                 /\ frame' = [frame EXCEPT ![k] =
                        IF HasIn(t, 0) THEN At(t, "check", 0) ELSE AfterCheck(t)]
                 /\ fire_pre' = Tokens
                 /\ UNCHANGED <<status_dirty, pc, serial, serial_ok, cands, checked>>
          [] f.ph = "check" ->
                 \* if (!is_transition_enabled(trans_idx)): one read
                 LET r == is_transition_enabled(f.t, f.i)
                 IN  /\ frame' = [frame EXCEPT ![k] =
                            IF r = "false" THEN At(f.t, "givefail", 0)
                            ELSE IF r = "more" THEN At(f.t, "check", f.i + 1)
                            ELSE AfterCheck(f.t)]
                     /\ UNCHANGED <<manufacturing_net, status_dirty, pc, fire_pre,
                                    serial, serial_ok, cands, checked>>
          [] f.ph = "dec" ->
                 \* places[place_idx].tokens -= weight
                 /\ manufacturing_net' =
                        StoreTokens(manufacturing_net, tr.input_places[f.i],
                            Debit(Tokens[tr.input_places[f.i]],
                                  tr.input_weights[f.i]))
                 /\ frame' = [frame EXCEPT ![k] =
                        IF HasIn(f.t, f.i + 1) THEN At(f.t, "dec", f.i + 1)
                        ELSE IF HasOut(f.t, 0) THEN At(f.t, "inc", 0)
                        ELSE At(f.t, "give", 0)]
                 /\ checked' = Moved(k)
                 /\ UNCHANGED <<status_dirty, pc, fire_pre, serial, serial_ok, cands>>
          [] f.ph = "inc" ->
                 \* places[place_idx].tokens += weight
                 /\ manufacturing_net' =
                        StoreTokens(manufacturing_net, tr.output_places[f.i],
                            Credit(Tokens[tr.output_places[f.i]],
                                   tr.output_weights[f.i]))
                 /\ frame' = [frame EXCEPT ![k] =
                        IF HasOut(f.t, f.i + 1) THEN At(f.t, "inc", f.i + 1)
                        ELSE At(f.t, "give", 0)]
                 /\ checked' = Moved(k)
                 /\ UNCHANGED <<status_dirty, pc, fire_pre, serial, serial_ok, cands>>
          [] f.ph = "givefail" ->
                 \* xSemaphoreGive(net_mutex); return false
                 /\ manufacturing_net' = [manufacturing_net EXCEPT !.net_mutex = NoTask]
                 /\ frame' = [frame EXCEPT ![k] = Idle]
                 /\ pc' = [pc EXCEPT ![k] = pcFalse]
                 /\ fire_pre' = NoMarking
                 /\ checked' = [checked EXCEPT ![k] = -1]
                 /\ UNCHANGED <<status_dirty, serial, serial_ok, cands>>
          [] f.ph = "give" ->
                 \* xSemaphoreGive(net_mutex) after both passes
                 /\ manufacturing_net' = [manufacturing_net EXCEPT !.net_mutex = NoTask]
                 /\ frame' = [frame EXCEPT ![k] = At(f.t, "dirty", 0)]
                 /\ fire_pre' = NoMarking
                 /\ serial' = AtomicFire(serial, f.t)
                 /\ serial_ok' = (serial_ok /\ Enabled(serial, f.t))
                 /\ cands' = Hold(AtomicFire(serial, f.t))
                 /\ checked' = [checked EXCEPT ![k] = -1]
                 /\ UNCHANGED <<status_dirty, pc>>
          [] f.ph = "dirty" ->
                 \* atomic_store(&status_dirty, true); return true
                 /\ status_dirty' = TRUE
                 /\ frame' = [frame EXCEPT ![k] = Idle]
                 /\ pc' = [pc EXCEPT ![k] = pcTrue]
                 /\ UNCHANGED <<manufacturing_net, fire_pre, serial, serial_ok, cands,
                                checked>>


\* ------------------------------------------------------ tasks.c: workers
\* Every worker is `while (1) { ... vTaskDelayUntil(...); }`; a delay changes
\* no variable, it only lets the other tasks run.

task_material_loader ==
    LET k == "MaterialLoader"
    IN  /\ pc[k] = "load"
        /\ frame[k].ph = "call" => loaded < MaxLoads
        /\ fire_transition(k, T_LOAD_MATERIAL, "load", "load")
        /\ loaded' = IF frame[k].ph = "dirty" THEN loaded + 1 ELSE loaded
        /\ UNCHANGED <<payload, qc, keys, injected, requests, snap_ok, snap_inj, snap_loaded, ret, arg>>

task_processor ==
    LET k == "Processor"
    IN  /\ CASE pc[k] = "start" ->
                    fire_transition(k, T_START_PROCESSING, "finish", "start")
              [] pc[k] = "finish" ->
                    fire_transition(k, T_FINISH_PROCESSING, "start", "start")
        /\ UNCHANGED taskVars

task_assembler ==
    LET k == "Assembler"
    IN  /\ CASE pc[k] = "start" ->
                    fire_transition(k, T_START_ASSEMBLY, "finish", "start")
              [] pc[k] = "finish" ->
                    fire_transition(k, T_FINISH_ASSEMBLY, "start", "start")
        /\ UNCHANGED taskVars

\* (thread_safe_rand() % 100) < paint_chance_percent: either outcome.
task_painter_router ==
    LET k == "PainterRouter"
    IN  /\ CASE pc[k] = "check_select" ->
                    \E paint \in BOOLEAN :
                        call_is_transition_enabled(k, T_SELECT_TO_PAINT,
                            IF paint THEN "fire_select" ELSE "check_skip",
                            "check_select")
              [] pc[k] = "fire_select" ->
                    fire_transition(k, T_SELECT_TO_PAINT, "painting",
                                    "select_failed")
              [] pc[k] = "painting" ->
                    \* vTaskDelay(pdMS_TO_TICKS(1500)): Simulate Painting Time
                    /\ pc' = [pc EXCEPT ![k] = "check_select"]
                    /\ UNCHANGED <<manufacturing_net, status_dirty, frame, fire_pre,
                                   serial, serial_ok, cands, checked>>
              [] pc[k] = "check_skip" ->
                    call_is_transition_enabled(k, T_SKIP_PAINT, "fire_skip",
                                               "check_select")
              [] pc[k] = "fire_skip" ->
                    fire_transition(k, T_SKIP_PAINT, "check_select", "skip_failed")
              [] pc[k] \in {"select_failed", "skip_failed"} ->
                    \* safe_printf(COLOR_RED, "[Router] ERROR: ...")
                    /\ pc' = [pc EXCEPT ![k] = "check_select"]
                    /\ UNCHANGED <<manufacturing_net, status_dirty, frame, fire_pre,
                                   serial, serial_ok, cands, checked>>
        /\ UNCHANGED taskVars

NoChoice == [start_transition |-> -1, pass_transition |-> -1, fail_transition |-> -1]
ChoiceQC1_Crossed ==
    [start_transition |-> T_START_QC_1, pass_transition |-> T_PASS_QC_2,
     fail_transition |-> T_FAIL_QC_2]
ChoiceQC1 == [start_transition |-> T_START_QC_1, pass_transition |-> T_PASS_QC_1,
              fail_transition |-> T_FAIL_QC_1]
ChoiceQC2_AsQC1 == ChoiceQC1
ChoiceQC2 == [start_transition |-> T_START_QC_2, pass_transition |-> T_PASS_QC_2,
              fail_transition |-> T_FAIL_QC_2]

\* (thread_safe_rand() % 100) < fail_chance_percent: either outcome.
task_quality_control ==
    LET k == "QualityControl"
    IN  /\ CASE pc[k] = "check_qc2" ->
                    /\ call_is_transition_enabled(k, T_START_QC_2, "fire_start",
                                                  "check_qc1")
                    /\ qc' = IF pc'[k] = "fire_start" THEN ChoiceQC2 ELSE qc
              [] pc[k] = "check_qc1" ->
                    /\ call_is_transition_enabled(k, T_START_QC_1, "fire_start",
                                                  "check_qc2")
                    /\ qc' = IF pc'[k] = "fire_start" THEN ChoiceQC1 ELSE qc
              [] pc[k] = "fire_start" ->
                    /\ fire_transition(k, qc.start_transition, "fire_result",
                                       "start_failed")
                    /\ qc' = qc
              [] pc[k] = "fire_result" ->
                    /\ \E result_transition \in
                            {qc.fail_transition, qc.pass_transition} :
                          fire_transition(k, result_transition, "check_qc2",
                                          "result_failed")
                    /\ qc' = IF pc'[k] = "check_qc2" THEN NoChoice ELSE qc
              [] pc[k] \in {"start_failed", "result_failed"} ->
                    \* safe_printf(COLOR_RED, "[QC Worker] ERROR: ..."); continue
                    /\ pc' = [pc EXCEPT ![k] = "check_qc2"]
                    /\ qc' = NoChoice
                    /\ UNCHANGED <<manufacturing_net, status_dirty, frame, fire_pre,
                                   serial, serial_ok, cands, checked>>
        /\ UNCHANGED <<payload, loaded, keys, injected, requests, snap_ok, snap_inj, snap_loaded,
                       ret, arg>>

task_reworker ==
    LET k == "Reworker"
    IN  /\ CASE pc[k] = "rework" ->
                    fire_transition(k, T_REWORK_PROCESS, "reworking", "rework")
              [] pc[k] = "reworking" ->
                    \* vTaskDelay(rework_duration)
                    /\ pc' = [pc EXCEPT ![k] = "rework"]
                    /\ UNCHANGED <<manufacturing_net, status_dirty, frame, fire_pre,
                                   serial, serial_ok, cands, checked>>
        /\ UNCHANGED taskVars

\* The packager's iteration: Bulk Package first, Individual Package only when
\* that returned false.
task_packager_IndividualFirst ==
    LET k == "Packager"
    IN  /\ CASE pc[k] = "bulk" ->
                    fire_transition(k, T_INDIVIDUAL_PACKAGE, "bulk", "individual")
              [] pc[k] = "individual" ->
                    fire_transition(k, T_BULK_PACKAGE, "bulk", "bulk")
        /\ UNCHANGED taskVars

task_packager ==
    LET k == "Packager"
    IN  /\ CASE pc[k] = "bulk" ->
                    fire_transition(k, T_BULK_PACKAGE, "bulk", "individual")
              [] pc[k] = "individual" ->
                    fire_transition(k, T_INDIVIDUAL_PACKAGE, "bulk", "bulk")
        /\ UNCHANGED taskVars

\* ------------------------------------------ status_server.c: the snapshot
\* Injections whose token and dirty flag are both stored.
Published == IF pc["Keyboard"] = "dirty" THEN injected - 1 ELSE injected

\* build_status_payload inside the accept loop of task_status_server: one
\* get_place_tokens(i) per step, in increasing i, then the clearing store.
\* The 2048-byte buffer holds every place of the line, so `offset < size`
\* never ends the loop early.
task_status_server ==
    LET k == "StatusServer"
        start == pc[k] = "accept"
        i == IF start THEN 0 ELSE Len(payload)
        tokens == get_place_tokens(i)
    IN  /\ CASE pc[k] \in {"accept", "build"} /\ i < manufacturing_net.num_places ->
                    /\ start => requests < MaxRequests
                    /\ payload' = Append(IF start THEN <<>> ELSE payload, tokens)
                    /\ cands' = {m \in (IF start THEN {serial} ELSE cands) :
                                    m[i] = tokens}
                    /\ pc' = [pc EXCEPT ![k] =
                            IF i + 1 < manufacturing_net.num_places
                            THEN "build" ELSE "clear"]
                    /\ requests' = IF start THEN requests + 1 ELSE requests
                    /\ snap_inj' = IF start THEN Published ELSE snap_inj
                    /\ snap_loaded' = IF start THEN loaded ELSE snap_loaded
                    /\ UNCHANGED <<status_dirty, snap_ok>>
              [] pc[k] = "clear" ->
                    \* atomic_store(&status_dirty, false)
                    /\ status_dirty' = FALSE
                    /\ snap_ok' = (cands # {})
                    /\ cands' = {}
                    /\ pc' = [pc EXCEPT ![k] = "accept"]
                    /\ UNCHANGED <<payload, requests, snap_inj, snap_loaded>>
        /\ UNCHANGED <<manufacturing_net, frame, loaded, qc, keys, injected,
                       fire_pre, serial, serial_ok, checked, ret, arg>>

\* --------------------------------------- main_blinky.c: the keyboard hook
KeysPressed == {"+", "q"}

\* `places[P_RAW_MATERIAL].tokens += 1`
Inject_Two(tokens) == tokens + 2
Inject(tokens) == tokens + 1

vBlinkyKeyboardInterruptHandler ==
    LET k == "Keyboard"
    IN  /\ CASE pc[k] = "wait" ->
                    /\ keys < MaxKeys
                    /\ keys' = keys + 1
                    /\ \E xKeyPressed \in KeysPressed :
                          IF xKeyPressed = "+"
                          THEN \* places[P_RAW_MATERIAL].tokens += 1
                               /\ manufacturing_net' =
                                      StoreTokens(manufacturing_net, P_RAW_MATERIAL,
                                          Inject(Tokens[P_RAW_MATERIAL]))
                               /\ injected' = injected + 1
                               /\ serial' = [serial EXCEPT ![P_RAW_MATERIAL] = @ + 1]
                               /\ cands' = Hold([serial EXCEPT ![P_RAW_MATERIAL] = @ + 1])
                               /\ pc' = [pc EXCEPT ![k] = "dirty"]
                          ELSE UNCHANGED <<manufacturing_net, injected, serial,
                                           cands, pc>>
                    /\ UNCHANGED status_dirty
              [] pc[k] = "dirty" ->
                    \* atomic_store(&status_dirty, true)
                    /\ status_dirty' = TRUE
                    /\ pc' = [pc EXCEPT ![k] = "print"]
                    /\ UNCHANGED <<manufacturing_net, keys, injected, serial, cands>>
              [] pc[k] = "print" ->
                    \* safe_printf(..., get_place_tokens(P_RAW_MATERIAL))
                    /\ pc' = [pc EXCEPT ![k] = "wait"]
                    /\ UNCHANGED <<manufacturing_net, status_dirty, keys, injected,
                                   serial, cands>>
        /\ UNCHANGED <<frame, payload, loaded, qc, requests, fire_pre, serial_ok,
                       snap_ok, snap_inj, snap_loaded, checked, ret, arg>>

\* ------------------------------------------------- the reference system
InitialPc ==
    [k \in Tasks |->
        CASE k = "MaterialLoader" -> "load"
          [] k \in {"Processor", "Assembler"} -> "start"
          [] k = "PainterRouter" -> "check_select"
          [] k = "QualityControl" -> "check_qc2"
          [] k = "Reworker" -> "rework"
          [] k = "Packager" -> "bulk"
          [] k = "StatusServer" -> "accept"
          [] k = "Keyboard" -> "wait"
          [] OTHER -> "idle"]

\* The state main_blinky leaves when it starts the scheduler.
StartOn(net, dirty) ==
    /\ manufacturing_net = net
    /\ status_dirty = dirty
    /\ pc = InitialPc
    /\ frame = [k \in Tasks |-> Idle]
    /\ payload = <<>>
    /\ loaded = 0
    /\ qc = NoChoice
    /\ keys = 0
    /\ injected = 0
    /\ requests = 0
    /\ fire_pre = NoMarking
    /\ serial = [p \in PlaceIdx |-> net.places[p].tokens]
    /\ serial_ok = TRUE
    /\ cands = {}
    /\ snap_ok = TRUE
    /\ snap_inj = 0
    /\ snap_loaded = 0
    /\ checked = [k \in Tasks |-> -1]
    /\ ret = NoCall
    /\ arg = [k \in Tasks |-> -1]
    /\ place_mutex = [p \in PlaceIdx |-> NoTask]

Init == StartOn(setup_manufacturing_process, FALSE)

\* The seven workers of the line.
Line ==
    \/ task_material_loader /\ UNCHANGED place_mutex
    \/ task_processor /\ UNCHANGED place_mutex
    \/ task_assembler /\ UNCHANGED place_mutex
    \/ task_painter_router /\ UNCHANGED place_mutex
    \/ task_quality_control /\ UNCHANGED place_mutex
    \/ task_reworker /\ UNCHANGED place_mutex
    \/ task_packager /\ UNCHANGED place_mutex

\* The line and the operator.  The status server is left to SpecStatus: it
\* never writes the net, so it changes nothing the workers or the hook do.
Next ==
    \/ Line
    \/ vBlinkyKeyboardInterruptHandler /\ UNCHANGED place_mutex

Spec == Init /\ [][Next]_vars

\* ------------------------------------- the line's feed, seen by the server
\* The status server beside the loader, the processor and the operator (the
\* other workers are in their delays).
NextStatus ==
    \/ task_material_loader /\ UNCHANGED place_mutex
    \/ task_processor /\ UNCHANGED place_mutex
    \/ task_status_server /\ UNCHANGED place_mutex
    \/ vBlinkyKeyboardInterruptHandler /\ UNCHANGED place_mutex

SpecStatus == Init /\ [][NextStatus]_vars

\* -------------------------------------------- the drained line (Raw = 0)
\* The marking the line reaches when all 20 raw items have gone through
\* without a QC failure: two bulk packages, nothing in between.  The flag is
\* set unless a status request has followed the last fire.
DrainedNet ==
    [setup_manufacturing_process EXCEPT
        !.places[P_RAW_MATERIAL].tokens = 0,
        !.places[P_FINAL_PACKAGED].tokens = 2]

InitDrained == \E dirty \in BOOLEAN : StartOn(DrainedNet, dirty)

\* No worker fires: the loader stays in its delay, and every other worker's
\* attempt finds its transition not enabled.
NextDrained ==
    \/ task_processor /\ UNCHANGED place_mutex
    \/ task_assembler /\ UNCHANGED place_mutex
    \/ task_painter_router /\ UNCHANGED place_mutex
    \/ task_quality_control /\ UNCHANGED place_mutex
    \/ task_reworker /\ UNCHANGED place_mutex
    \/ task_packager /\ UNCHANGED place_mutex
    \/ task_status_server /\ UNCHANGED place_mutex
    \/ vBlinkyKeyboardInterruptHandler /\ UNCHANGED place_mutex

SpecDrained == InitDrained /\ [][NextDrained]_vars

\* ---------------------------------------- the kernel on other small nets
\* Two tasks that call fire_transition on a shared net of two places and two
\* transitions: t0 with any input arcs (up to two, repeats allowed) and any
\* output arc (at most one), t1 moving one token from p0 to p1.
KernelPlaces == {0, 1}
KernelWeights == {1, 2}
KernelArcs == [p : KernelPlaces, w : KernelWeights]
KernelIns == {<<>>} \cup {<<a>> : a \in KernelArcs}
                 \cup {<<a, b>> : a \in KernelArcs, b \in KernelArcs}
KernelOuts == {<<>>} \cup {<<a>> : a \in KernelArcs}

KernelCalls(m0, m1, ins, outs) ==
    << PlaceCall("p0", m0), PlaceCall("p1", m1), TransCall("t0") >>
    \o [j \in 1 .. Len(ins) |-> InCall(0, ins[j].p, ins[j].w)]
    \o [j \in 1 .. Len(outs) |-> OutCall(0, outs[j].p, outs[j].w)]
    \o << TransCall("t1"), InCall(1, 0, 1), OutCall(1, 1, 1) >>

InitKernel ==
    \E m0 \in 0 .. MaxTokens, m1 \in 0 .. MaxTokens,
       ins \in KernelIns, outs \in KernelOuts :
        StartOn(Build(init_petri_net, KernelCalls(m0, m1, ins, outs)), FALSE)

\* A call is started only while no place holds more than MaxTokens.
Caller(k) ==
    /\ pc[k] = "idle"
    /\ frame[k].ph = "call" => \A p \in PlaceIdx : Tokens[p] <= MaxTokens
    /\ \E t \in (IF frame[k].ph = "call"
                 THEN 0 .. (manufacturing_net.num_transitions - 1)
                 ELSE {frame[k].t}) :
          fire_transition(k, t, "idle", "idle")
    /\ UNCHANGED taskVars

\* A caller that follows the pattern of the router and the QC worker on any
\* transition: is_transition_enabled(t), then fire_transition(t) when that
\* returned true.
Tester(k) ==
    CASE pc[k] = "idle" ->
             /\ \A p \in PlaceIdx : Tokens[p] <= MaxTokens
             /\ \E t \in 0 .. (manufacturing_net.num_transitions - 1) :
                   arg' = [arg EXCEPT ![k] = t]
             /\ pc' = [pc EXCEPT ![k] = "test"]
             /\ UNCHANGED <<manufacturing_net, status_dirty, frame, payload,
                            loaded, qc, keys, injected, requests, fire_pre,
                            serial, serial_ok, cands, snap_ok, snap_inj, snap_loaded, checked,
                            ret>>
      [] pc[k] = "test" ->
             /\ call_is_transition_enabled(k, arg[k], "fire", "idle")
             /\ UNCHANGED taskVars
      [] pc[k] = "fire" ->
             /\ fire_transition(k, arg[k], "idle", "idle")
             /\ UNCHANGED taskVars

NextKernel == \E k \in Callers : Caller(k) /\ UNCHANGED place_mutex

SpecKernel == InitKernel /\ [][NextKernel]_vars

\* One task that checks before it fires, beside one that fires.
NextCoherence ==
    \/ Tester("Caller1") /\ UNCHANGED place_mutex
    \/ Caller("Caller2") /\ UNCHANGED place_mutex

SpecCoherence == InitKernel /\ [][NextCoherence]_vars

\* ------------------------------------------------- the line in mid-run
\* The reference net holding the marking m.
WithMarking(net, m) ==
    [net EXCEPT !.places = [p \in PlaceIdx |-> [@[p] EXCEPT !.tokens = m[p]]]]

\* Markings of the line some time after its start: one item waits for QC 1,
\* or one item lies in the rework bin; no QC is active.
MidMarkings ==
    { [SetupMarking EXCEPT ![P_ASSEMBLED] = 1],
      [SetupMarking EXCEPT ![P_REWORK_BIN] = 1] }

InitMid ==
    \E m \in MidMarkings : StartOn(WithMarking(setup_manufacturing_process, m), FALSE)

\* The QC worker and the reworker with the status server and the keyboard
\* hook.
NextMid ==
    \/ task_quality_control /\ UNCHANGED place_mutex
    \/ task_reworker /\ UNCHANGED place_mutex
    \/ task_status_server /\ UNCHANGED place_mutex
    \/ vBlinkyKeyboardInterruptHandler /\ UNCHANGED place_mutex

SpecMid == InitMid /\ [][NextMid]_vars

\* Markings in which items wait before QC 1, before the router, before QC 2
\* and in the rework bin; no QC is active.
QCMarkings ==
    { [SetupMarking EXCEPT ![P_ASSEMBLED] = a, ![P_POST_QC1_BUFFER] = b,
                           ![P_PAINTED] = c, ![P_REWORK_BIN] = r] :
          a \in 0 .. 1, b \in 0 .. 1, c \in 0 .. 1, r \in 0 .. 1 }

InitQC ==
    \E m \in QCMarkings : StartOn(WithMarking(setup_manufacturing_process, m), FALSE)

\* The QC worker with the two tasks that feed it and use the Worker token.
NextQC ==
    \/ task_quality_control /\ UNCHANGED place_mutex
    \/ task_painter_router /\ UNCHANGED place_mutex
    \/ task_reworker /\ UNCHANGED place_mutex

SpecQC == InitQC /\ [][NextQC]_vars

\* Markings in which the packager is one item short of a bulk package or has
\* just completed the set, with items waiting for it and before the router.
PackMarkings ==
    { [SetupMarking EXCEPT ![P_INDIVIDUALLY_PACKAGED] = n,
                           ![P_READY_FOR_INDIVIDUAL_PACKAGE] = a,
                           ![P_POST_QC1_BUFFER] = b] :
          n \in 4 .. 5, a \in 0 .. MaxTokens, b \in 0 .. 1 }

InitPack ==
    \E m \in PackMarkings : StartOn(WithMarking(setup_manufacturing_process, m), FALSE)

\* The packager with the router, which feeds it.
NextPack ==
    \/ task_packager /\ UNCHANGED place_mutex
    \/ task_painter_router /\ UNCHANGED place_mutex

SpecPack == InitPack /\ [][NextPack]_vars

\* The transitions that take a Worker token.
ResourceTransitions == {T_START_QC_1, T_START_QC_2, T_REWORK_PROCESS}

\* Markings with up to MaxTokens items before each QC and 0 or 1 item in the
\* rework bin; all Worker tokens are free.
ResourceMarkings ==
    { [SetupMarking EXCEPT ![P_ASSEMBLED] = a, ![P_PAINTED] = b,
                           ![P_REWORK_BIN] = r] :
          a \in 0 .. MaxTokens, b \in 0 .. MaxTokens, r \in 0 .. 1 }

InitResource ==
    \E m \in ResourceMarkings :
        StartOn(WithMarking(setup_manufacturing_process, m), FALSE)

\* A task that calls fire_transition on the transitions that take a Worker
\* token, in any order.
Requester(k) ==
    /\ pc[k] = "idle"
    /\ \E t \in (IF frame[k].ph = "call" THEN ResourceTransitions
                 ELSE {frame[k].t}) :
          fire_transition(k, t, "idle", "idle")
    /\ UNCHANGED taskVars

NextResource == \E k \in Callers : Requester(k) /\ UNCHANGED place_mutex

SpecResource == InitResource /\ [][NextResource]_vars

\* ---------------------------------------------------------- the builder
\* add_place and add_transition called on the net init_petri_net leaves, any
\* number of times and in any order.  The n-th add_place is the n-th one of
\* setup_manufacturing_process; a call past those adds a spare.
PlaceCalls == SelectSeq(SetupCalls, LAMBDA c : c.op = "place")
TransCalls == SelectSeq(SetupCalls, LAMBDA c : c.op = "trans")
SparePlace == PlaceCall("Spare", 1)
SpareTrans == TransCall("Spare")

NextPlaceCall ==
    IF manufacturing_net.num_places < Len(PlaceCalls)
    THEN PlaceCalls[manufacturing_net.num_places + 1] ELSE SparePlace

NextTransCall ==
    IF manufacturing_net.num_transitions < Len(TransCalls)
    THEN TransCalls[manufacturing_net.num_transitions + 1] ELSE SpareTrans

builderVars == <<status_dirty, pc, frame, payload, loaded, qc, keys, injected,
                 requests, fire_pre, serial, serial_ok, cands, snap_ok,
                 snap_inj, snap_loaded, checked, arg, place_mutex>>

call_add_place ==
    /\ manufacturing_net' =
           add_place(manufacturing_net, NextPlaceCall.name, NextPlaceCall.n)
    /\ ret' = [call |-> "add_place", value |-> add_place_ret(manufacturing_net)]
    /\ UNCHANGED builderVars

call_add_transition ==
    /\ manufacturing_net' = add_transition(manufacturing_net, NextTransCall.name)
    /\ ret' = [call |-> "add_transition",
               value |-> add_transition_ret(manufacturing_net)]
    /\ UNCHANGED builderVars

InitBuild == StartOn(init_petri_net, FALSE)

NextBuild == call_add_place \/ call_add_transition

SpecBuild == InitBuild /\ [][NextBuild]_vars


\* ======================================================== the properties
\* Task k is inside fire_transition, between taking and giving net_mutex or
\* at its final store.
InFire(k) == frame[k].ph \in {"check", "dec", "inc", "give", "givefail", "dirty"}
                /\ pc[k] \notin {"check_select", "check_skip", "check_qc2", "check_qc1",
                              "test"}

\* Task k's fire has passed its enablement check and not finished its passes.
InPasses(k) == InFire(k) /\ frame[k].ph \in {"dec", "inc"}

\* Task k's fire has debited an input place and not yet credited every output.
Debited(k) ==
    InFire(k) /\ \/ frame[k].ph = "dec" /\ frame[k].i > 0
                 \/ frame[k].ph = "inc"

\* The places transition t has an arc to or from.
Touched(t) ==
    {manufacturing_net.transitions[t].input_places[i] : i \in InSlots(t)}
    \cup {manufacturing_net.transitions[t].output_places[i] : i \in OutSlots(t)}

AllReturned == \A k \in Tasks : frame[k].ph = "call"

\* C1 -- Non-negativity: in the reference system every place's token count is
\* >= 0 in every reachable state, also in the middle of a fire.
C1_NonNegative ==
    \A p \in PlaceIdx : manufacturing_net.places[p].tokens >= 0

\* A fire has debited an input place down to 0 and not yet credited its
\* outputs, after an operator injection.
C1_Witness ==
    /\ injected > 0
    /\ \E k \in Workers :
          /\ frame[k].ph = "inc"
          /\ \E i \in InSlots(frame[k].t) :
                Tokens[manufacturing_net.transitions[frame[k].t].input_places[i]] = 0

\* C2 -- All-or-nothing firing: a fire_transition that is about to return true
\* (both passes done, net_mutex still held) has changed the marking it found by
\* exactly the output weights minus the input weights of t; one that is about
\* to return false has changed nothing.
C2_AllOrNothing ==
    \A k \in Tasks :
        /\ (InFire(k) /\ frame[k].ph = "give")
              => Tokens = AtomicFire(fire_pre, frame[k].t)
        /\ (InFire(k) /\ frame[k].ph = "givefail") => Tokens = fire_pre

\* A fire that is about to return true and has changed the marking.
C2_Witness ==
    \E k \in Callers :
        /\ frame[k].ph = "give"
        /\ Tokens # fire_pre
        /\ Tokens = AtomicFire(fire_pre, frame[k].t)

\* The place the step of task k from this state reads as an observer (outside
\* fire_transition), or -1.
ObservedPlace(k) ==
    LET in(t) == manufacturing_net.transitions[t].input_places[frame[k].i]
    IN  CASE k = "Keyboard" /\ pc[k] = "print" -> P_RAW_MATERIAL
          [] k = "StatusServer" /\ pc[k] = "accept" -> 0
          [] k = "StatusServer" /\ pc[k] = "build" -> Len(payload)
          [] k = "PainterRouter" /\ pc[k] = "check_select" -> in(T_SELECT_TO_PAINT)
          [] k = "PainterRouter" /\ pc[k] = "check_skip" -> in(T_SKIP_PAINT)
          [] k = "QualityControl" /\ pc[k] = "check_qc2" -> in(T_START_QC_2)
          [] k = "QualityControl" /\ pc[k] = "check_qc1" -> in(T_START_QC_1)
          [] OTHER -> -1

\* The step is one of task k.
StepOf(k) == pc'[k] # pc[k] \/ frame'[k] # frame[k] \/ (k = "StatusServer" /\ payload' # payload)

\* ------------------------------------------------ the place mutexes
\* Every access to places[p].tokens is xSemaphoreTake(places[p].mutex),
\* the access, xSemaphoreGive(places[p].mutex).  The specifications above
\* take the three as one step; below the take is a step of its own, so that
\* a task holds a place mutex while the others run.

\* The place whose mutex task k takes next, or -1.
AccessedPlace(k) ==
    LET f == frame[k]
    IN  IF f.ph \in {"check", "dec"}
        THEN manufacturing_net.transitions[f.t].input_places[f.i]
        ELSE IF f.ph = "inc"
        THEN manufacturing_net.transitions[f.t].output_places[f.i]
        ELSE IF f.ph # "call" THEN -1
        ELSE IF k = "Keyboard" /\ pc[k] = "wait" THEN P_RAW_MATERIAL
        ELSE ObservedPlace(k)

\* The access task k stands before is one the bounds of the model let it make.
CanAccess(k) ==
    /\ k = "Keyboard" /\ pc[k] = "wait" => keys < MaxKeys
    /\ k = "StatusServer" /\ pc[k] = "accept" => requests < MaxRequests

Taken(mutexes, p, k) == [mutexes EXCEPT ![p] = k]

Given_Kept(mutexes, p) == mutexes
Given(mutexes, p) == [mutexes EXCEPT ![p] = NoTask]

\* One step of task k in the specifications above.
TaskStep(k) ==
    CASE k = "MaterialLoader" -> task_material_loader
      [] k = "Processor" -> task_processor
      [] k = "Assembler" -> task_assembler
      [] k = "PainterRouter" -> task_painter_router
      [] k = "QualityControl" -> task_quality_control
      [] k = "Reworker" -> task_reworker
      [] k = "Packager" -> task_packager
      [] k = "StatusServer" -> task_status_server
      [] k = "Keyboard" -> vBlinkyKeyboardInterruptHandler

\* One step of task k with the place mutexes: a step that accesses no place,
\* the take of the mutex of the place it is about to access, or the access
\* together with the give.  A key other than '+' takes no mutex.
LockStep(k) ==
    LET p == AccessedPlace(k)
    IN  IF p = -1
        THEN TaskStep(k) /\ UNCHANGED place_mutex
        ELSE IF place_mutex[p] = k
        THEN /\ TaskStep(k)
             /\ (k = "Keyboard" /\ pc[k] = "wait") => injected' # injected
             /\ place_mutex' = Given(place_mutex, p)
        ELSE \/ /\ place_mutex[p] = NoTask
                /\ CanAccess(k)
                /\ place_mutex' = Taken(place_mutex, p, k)
                /\ UNCHANGED <<manufacturing_net, status_dirty, pc, frame,
                               payload, loaded, qc, keys, injected, requests,
                               fire_pre, serial, serial_ok, cands, snap_ok,
                               snap_inj, snap_loaded, checked, ret, arg>>
             \/ /\ k = "Keyboard" /\ pc[k] = "wait"
                /\ TaskStep(k)
                /\ injected' = injected
                /\ UNCHANGED place_mutex

\* The QC worker, the reworker and the status server of SpecMid, with the
\* place mutexes.  A task that can take a step again and
\* again takes one in the end: the scheduler shares the processor among the
\* ready tasks and a mutex goes to the task that has waited longest.
LockTasks == {"QualityControl", "Reworker", "StatusServer"}

NextLocks == \E k \in LockTasks : LockStep(k)

SpecLocks ==
    InitMid /\ [][NextLocks]_vars /\ \A k \in LockTasks : SF_vars(LockStep(k))

\* C3 -- Atomicity towards observers: no observer reads the token count of a
\* place of a firing transition while that fire has debited an input place
\* and not yet credited its output places.
C3_AtomicToObservers ==
    [][\A k \in Tasks :
          (StepOf(k) /\ ObservedPlace(k) # -1)
              => ~ \E f \in Tasks :
                      Debited(f) /\ ObservedPlace(k) \in Touched(frame[f].t)]_vars

\* C4 -- Serializability: every fire that returned true was enabled in the
\* marking of the serial history at its place in it, and once all calls have
\* returned the marking is the one the serial history yields.
C4_Serializable ==
    /\ serial_ok
    /\ AllReturned => Tokens = serial

\* Two overlapping calls of fire_transition(t1) have both committed: each
\* task has given net_mutex back and is at its final store, about to return
\* true, the second having waited for the first; p0 is drained.
C4_Witness ==
    /\ \A k \in Callers : frame[k].ph = "dirty" /\ frame[k].t = 1
    /\ Tokens = serial
    /\ Tokens[0] = 0
    /\ Tokens[1] = MaxTokens

\* C5 -- Snapshot consistency: every finished payload equals one marking of
\* the serial history that the net held while the payload was built.
C5_SnapshotConsistent == snap_ok

\* C6 -- Worker-resource bound: at any instant Worker + QC Active 1 + QC
\* Active 2 + pending_rework_holding = 3, where pending_rework_holding is the
\* Worker token a Rework Process fire has debited and not yet credited back.
pending_rework_holding ==
    IF InFire("Reworker") /\ frame["Reworker"].ph = "inc" THEN 1 ELSE 0

C6_WorkerBound ==
    Tokens[P_WORKER] + Tokens[P_QUALITY_CHECK_1] + Tokens[P_QUALITY_CHECK_2]
        + pending_rework_holding = 3

\* C7 -- Injection under the net guard: no injection takes effect while a
\* fire is between its enablement re-check and the end of its passes.
C7_InjectionUnderGuard ==
    [][injected' # injected => ~ \E k \in Tasks : InPasses(k)]_vars

\* No fire, injection or snapshot is in progress.
Quiescent ==
    /\ AllReturned
    /\ pc["Keyboard"] = "wait"
    /\ pc["StatusServer"] = "accept"

\* C8 -- Dirty-flag freshness: whenever no fire, injection or snapshot is in
\* progress and the flag is clear, the marking is the one the most recent
\* snapshot reported.
C8_DirtyFreshness ==
    (Quiescent /\ ~status_dirty /\ requests > 0)
        => \A p \in 0 .. (manufacturing_net.num_places - 1) :
              payload[p + 1] = Tokens[p]

\* C9 -- Injection scenario: from Raw Material = 0 with no worker firing, the
\* '+' event leaves Raw Material = 1 and the flag set (the handler's store),
\* and a snapshot begun after that event, with no further event, reports Raw
\* Material = 1 and leaves the flag clear.
C9_AfterEvent ==
    (pc["Keyboard"] = "dirty" /\ pc'["Keyboard"] = "print" /\ injected = 1)
        => (Tokens'[P_RAW_MATERIAL] = 1 /\ status_dirty')

C9_NextSnapshot ==
    (pc["StatusServer"] = "accept" /\ requests > 0 /\ snap_inj = 1
        /\ injected = 1 /\ pc["Keyboard"] # "dirty")
        => (payload[P_RAW_MATERIAL + 1] = 1 /\ ~status_dirty)

C9_InjectionScenario == [][C9_AfterEvent]_vars /\ []C9_NextSnapshot

\* The event has been handled and a snapshot begun after it has finished.
C9_Witness ==
    /\ pc["StatusServer"] = "accept" /\ requests > 0 /\ snap_inj = 1
    /\ injected = 1 /\ pc["Keyboard"] = "wait"
    /\ payload[P_RAW_MATERIAL + 1] = 1

\* C10 -- Additive arcs: a fire passes its enablement check only when every
\* place holds at least the sum of the weights of t's input arcs from it.
C10_AdditiveArcs ==
    \A k \in Tasks :
        InPasses(k) => \A p \in PlaceIdx : fire_pre[p] >= InSum(frame[k].t, p, 0)

\* C11 -- Enable/fire coherence: a fire_transition(t) whose guarded re-check
\* fails was not preceded by an is_transition_enabled(t) of the same task that
\* returned true with no token moved by another task's fire since it returned.
C11_EnableFireCoherence ==
    \A k \in Tasks :
        (InFire(k) /\ frame[k].ph = "givefail") => checked[k] # frame[k].t

\* C12 -- Capacity exceeded: add_place at num_places = MAX_PLACES and
\* add_transition at num_transitions = MAX_TRANSITIONS return -1 and leave the
\* counts, every place and every transition as they were; below the cap each
\* returns the previous count, raises its own count by one and leaves the
\* other count and the entries added before as they were.
C12_Step ==
    LET net == manufacturing_net
        net2 == manufacturing_net'
    IN  /\ ret'.call = "add_place" =>
              IF net.num_places = MAX_PLACES
              THEN ret'.value = -1 /\ net2 = net
              ELSE /\ ret'.value = net.num_places
                   /\ net2.num_places = net.num_places + 1
                   /\ net2.num_transitions = net.num_transitions
                   /\ net2.transitions = net.transitions
                   /\ \A p \in 0 .. (net.num_places - 1) :
                         net2.places[p] = net.places[p]
        /\ ret'.call = "add_transition" =>
              IF net.num_transitions = MAX_TRANSITIONS
              THEN ret'.value = -1 /\ net2 = net
              ELSE /\ ret'.value = net.num_transitions
                   /\ net2.num_transitions = net.num_transitions + 1
                   /\ net2.num_places = net.num_places
                   /\ net2.places = net.places
                   /\ \A t \in 0 .. (net.num_transitions - 1) :
                         net2.transitions[t] = net.transitions[t]

C12_CapacityExceeded == [][C12_Step]_vars

\* Both arrays are full and the last call, an add_place, was refused.
C12_Witness ==
    /\ manufacturing_net.num_places = MAX_PLACES
    /\ manufacturing_net.num_transitions = MAX_TRANSITIONS
    /\ ret = [call |-> "add_place", value |-> -1]
    /\ manufacturing_net.places[MAX_PLACES - 1].name = "Rework Bin"

\* C13 -- Topology immutability: no step of fire_transition,
\* is_transition_enabled, get_place_tokens, the snapshot or the injection
\* changes num_places, num_transitions or any transition's input and output
\* place and weight arrays.
C13_TopologyImmutable ==
    [][/\ manufacturing_net'.num_places = manufacturing_net.num_places
       /\ manufacturing_net'.num_transitions = manufacturing_net.num_transitions
       /\ \A t \in TransIdx :
            LET tr == manufacturing_net.transitions[t]
                tr2 == manufacturing_net'.transitions[t]
            IN  /\ tr2.input_places = tr.input_places
                /\ tr2.input_weights = tr.input_weights
                /\ tr2.output_places = tr.output_places
                /\ tr2.output_weights = tr.output_weights]_vars

\* Fires (a rework among them), a snapshot, an injection and a test of
\* Start QC 2 have all happened, and the net is the one
\* setup_manufacturing_process built, with another marking.
C13_Witness ==
    /\ Tokens[P_PROCESSED] = 1
    /\ pc["QualityControl"] = "check_qc1"
    /\ injected = 1
    /\ Len(payload) = MAX_PLACES
    /\ manufacturing_net.transitions = setup_manufacturing_process.transitions
    /\ manufacturing_net.num_places = MAX_PLACES

\* C14 -- QC priority: when the QC worker ends its test of Start QC 2 in an
\* iteration in which Start QC 2 and Start QC 1 are both enabled in the
\* marking, it goes on to fire Start QC 2; and the start transition it fires
\* is the one it chose, and that fire succeeds.
C14_Step ==
    LET k == "QualityControl"
    IN  /\ ( /\ pc[k] = "check_qc2" /\ pc'[k] # "check_qc2"
             /\ Enabled(serial, T_START_QC_2)
             /\ Enabled(serial, T_START_QC_1) )
              => pc'[k] = "fire_start" /\ qc' = ChoiceQC2
        /\ (pc[k] = "fire_start" /\ qc = ChoiceQC2)
              => /\ frame'[k].t \in {-1, T_START_QC_2}
                 /\ pc'[k] \in {"fire_start", "fire_result"}

C15_Step ==
    LET k == "Packager"
    IN  /\ (pc'[k] = "individual" /\ pc[k] # "individual")
              => /\ pc[k] = "bulk"
                 /\ frame[k] = At(T_BULK_PACKAGE, "givefail", 0)
                 /\ fire_pre[P_INDIVIDUALLY_PACKAGED] < 5
        /\ (pc[k] = "bulk" /\ Tokens[P_INDIVIDUALLY_PACKAGED] >= 5
                /\ frame[k].ph = "call")
              => frame'[k].t \in {-1, T_BULK_PACKAGE}
        /\ (pc[k] = "bulk" /\ frame[k].ph = "give"
                /\ fire_pre[P_INDIVIDUALLY_PACKAGED] >= 5)
              => /\ frame[k].t = T_BULK_PACKAGE
                 /\ Tokens[P_INDIVIDUALLY_PACKAGED] =
                        fire_pre[P_INDIVIDUALLY_PACKAGED] - 5
                 /\ Tokens[P_FINAL_PACKAGED] = fire_pre[P_FINAL_PACKAGED] + 1
        /\ (pc[k] = "bulk" /\ frame[k].ph \in {"check", "givefail"}
                /\ fire_pre[P_INDIVIDUALLY_PACKAGED] >= 5)
              => pc'[k] = "bulk" /\ frame'[k].ph # "givefail"
        /\ pc[k] = "individual"
              => frame[k].t \in {-1, T_INDIVIDUAL_PACKAGE}

C15_PackagerPreference == [][C15_Step]_vars

\* Bulk Package has taken the five items of an iteration that began with five.
C15_Witness ==
    /\ pc["Packager"] = "bulk"
    /\ frame["Packager"] = At(T_BULK_PACKAGE, "give", 0)
    /\ fire_pre[P_INDIVIDUALLY_PACKAGED] = 5
    /\ Tokens[P_INDIVIDUALLY_PACKAGED] = 0
    /\ Tokens[P_FINAL_PACKAGED] = 1

\* Worker k is in the delay that follows its call at position p.
Delaying(k, p) == pc[k] = p /\ frame[k].ph = "call"

\* The activities that have a start and a finish transition: during the
\* delay between the two the in-progress place holds the item.
C16_StartFinish ==
    /\ Delaying("Processor", "finish") => Tokens[P_PROCESSING] >= 1
    /\ Delaying("Assembler", "finish") => Tokens[P_READY_TO_ASSEMBLE] >= 2
    /\ (Delaying("QualityControl", "fire_result") /\ qc = ChoiceQC1)
            => Tokens[P_QUALITY_CHECK_1] >= 1
    /\ (Delaying("QualityControl", "fire_result") /\ qc = ChoiceQC2)
            => Tokens[P_QUALITY_CHECK_2] >= 1

\* C16 -- In-progress discipline: during the delay of every timed activity
\* (processing, assembly, QC, painting, rework) the item's token is in a
\* place no other worker takes it from, and during the rework delay the
\* Worker token is still debited.
C16_InProgress ==
    /\ C16_StartFinish
    /\ Delaying("PainterRouter", "painting") => Tokens[P_PAINTED] >= 1
    /\ Delaying("Reworker", "reworking") =>
            serial[P_WORKER] + serial[P_QUALITY_CHECK_1]
                + serial[P_QUALITY_CHECK_2] < SetupMarking[P_WORKER]

\* Positions at which a worker calls fire_transition.
FirePcs == {"load", "start", "finish", "fire_select", "fire_skip", "fire_start",
            "fire_result", "rework", "bulk", "individual", "fire"}

\* Task k stands at the xSemaphoreTake(net_mutex) of a fire_transition.
AtNetTake(k) ==
    /\ frame[k].ph = "call"
    /\ pc[k] \in FirePcs
    /\ k = "MaterialLoader" => loaded < MaxLoads

\* Task k stands at the xSemaphoreTake of a place mutex, inside
\* fire_transition, is_transition_enabled or get_place_tokens.
WaitingPlace(k) ==
    /\ AccessedPlace(k) # -1
    /\ place_mutex[AccessedPlace(k)] # k
    /\ CanAccess(k)
    /\ ~(k = "Keyboard" /\ pc[k] = "wait")

HoldsPlace(k) == \E p \in PlaceIdx : place_mutex[p] = k

\* A task that holds a place mutex holds one only and waits for nothing: its
\* next step is the access and the give.
C17_NoWaitCycle ==
    \A k \in Tasks :
        HoldsPlace(k) =>
            /\ AccessedPlace(k) # -1
            /\ \A p \in PlaceIdx : place_mutex[p] = k <=> p = AccessedPlace(k)

\* C17 -- fire_transition and is_transition_enabled never block for ever
\* under fair scheduling: a task at the take of net_mutex gets it, the holder
\* gives it back, a task at the take of a place mutex gets it, the holder
\* gives it back; and no task waits while it holds a place mutex, so the
\* waits for net_mutex and for the place mutexes form no cycle.
C17_NeverBlocked ==
    /\ []C17_NoWaitCycle
    /\ \A k \in LockTasks \cap Workers :
          /\ AtNetTake(k) ~> (manufacturing_net.net_mutex = k)
          /\ (manufacturing_net.net_mutex = k) ~> (manufacturing_net.net_mutex # k)
    /\ \A k \in LockTasks :
          /\ WaitingPlace(k) ~> HoldsPlace(k)
          /\ HoldsPlace(k) ~> ~HoldsPlace(k)

\* The reworker waits for net_mutex, which the QC worker holds while it waits
\* for the mutex of a place the status server is reading.
C17_Witness ==
    /\ AtNetTake("Reworker")
    /\ manufacturing_net.net_mutex = "QualityControl"
    /\ WaitingPlace("QualityControl")
    /\ place_mutex[AccessedPlace("QualityControl")] = "StatusServer"

\* The counts place p holds in the serial history around this moment: the
\* one of its last marking and, while a fire is in its passes, the one of the
\* marking that fire is about to add.
SerialCounts(p) ==
    {serial[p]} \cup
    { AtomicFire(serial, frame[f].t)[p] :
          f \in {g \in Tasks : InFire(g) /\ frame[g].ph \in {"dec", "inc", "give"}} }

\* Task k returns from get_place_tokens in this step.
Returns_get_place_tokens(k) ==
    /\ k \in {"StatusServer", "Keyboard"}
    /\ StepOf(k)
    /\ ObservedPlace(k) # -1

\* C18 -- Consistent single-place read: every value get_place_tokens(p)
\* returns is a count p holds in a marking of the serial history; and
\* get_place_tokens(Worker) called during a Rework Process fire returns no
\* less than the initial Worker count minus QC Active 1 and QC Active 2.
C18_Step ==
    \A k \in Tasks :
        Returns_get_place_tokens(k) =>
            /\ get_place_tokens(ObservedPlace(k)) \in SerialCounts(ObservedPlace(k))
            /\ (ObservedPlace(k) = P_WORKER /\ InFire("Reworker"))
                  => get_place_tokens(P_WORKER) >=
                        SetupMarking[P_WORKER] - Tokens[P_QUALITY_CHECK_1]
                            - Tokens[P_QUALITY_CHECK_2]

C18_ConsistentRead == [][C18_Step]_vars

\* What the fire in progress has added to place p so far.
Pending(p) ==
    LET h == manufacturing_net.net_mutex
    IN  IF h = NoTask THEN 0
        ELSE LET f == frame[h]
             IN  IF f.ph = "dec"
                 THEN InSum(f.t, p, f.i) - InSum(f.t, p, 0)
                 ELSE IF f.ph = "inc"
                 THEN OutSum(f.t, p, 0) - OutSum(f.t, p, f.i) - InSum(f.t, p, 0)
                 ELSE IF f.ph = "give"
                 THEN OutSum(f.t, p, 0) - InSum(f.t, p, 0)
                 ELSE 0

\* C19 -- Happens-before: every count a snapshot reports is the count of the
\* serial marking at the moment it is read, which holds the debits and
\* credits of every fire that returned before the build began, plus what a
\* fire still in progress has moved so far; so Raw Material is reported
\* lower by every Load Material that had returned when the build began.
C19_Step ==
    LET k == "StatusServer"
        i == ObservedPlace(k)
    IN  (StepOf(k) /\ i # -1) =>
            /\ Len(payload') = i + 1
            /\ payload'[i + 1] = serial[i] + Pending(i)
            /\ i = P_RAW_MATERIAL =>
                  payload'[i + 1] <=
                      SetupMarking[P_RAW_MATERIAL] + injected - snap_loaded'

C19_HappensBefore == [][C19_Step]_vars

\* A snapshot that began after a Load Material had returned is complete and
\* reports Raw Material without the loaded item.
C19_Witness ==
    /\ pc["StatusServer"] = "clear"
    /\ snap_loaded = 1
    /\ snap_inj = 0
    /\ payload[P_RAW_MATERIAL + 1] = SetupMarking[P_RAW_MATERIAL] - 1
    /\ payload[P_READY_TO_PROCESS + 1] = 1

\* C20 -- Resource-token limiting: a fire_transition of Start QC 1, Start
\* QC 2 or Rework Process that finds Worker = 0 goes no further than its
\* check, returns false and leaves every place as it found it, whatever
\* Assembled, Painted and Rework Bin hold; and QC Active 1 + QC Active 2
\* never exceeds the initial Worker count.
C20_ResourceLimit ==
    /\ \A k \in Tasks :
          ( /\ manufacturing_net.net_mutex = k
            /\ frame[k].t \in ResourceTransitions
            /\ fire_pre[P_WORKER] = 0 )
              => /\ frame[k].ph \in {"check", "givefail"}
                 /\ Tokens = fire_pre
    /\ Tokens[P_QUALITY_CHECK_1] + Tokens[P_QUALITY_CHECK_2]
            <= SetupMarking[P_WORKER]
    /\ Tokens[P_WORKER] >= 0

\* Start QC 1 is refused for want of a Worker token while an item waits in
\* Assembled and all Worker tokens are held by QC activities.
C20_Witness ==
    /\ \E k \in Callers : frame[k] = At(T_START_QC_1, "givefail", 0)
    /\ fire_pre[P_WORKER] = 0
    /\ Tokens[P_ASSEMBLED] >= 1
    /\ Tokens[P_QUALITY_CHECK_1] + Tokens[P_QUALITY_CHECK_2] = SetupMarking[P_WORKER]

\* C21 -- Bulk conservation: Final Packaged never decreases; every step that
\* raises it raises it by exactly 1, is the credit of a Bulk Package fire, and
\* that fire has taken exactly 5 from Individually Packaged; in the serial
\* history each marking with one more Final Packaged has 5 fewer
\* Individually Packaged.
C21_Step ==
    LET h == manufacturing_net.net_mutex
    IN  /\ Tokens'[P_FINAL_PACKAGED] # Tokens[P_FINAL_PACKAGED] =>
              /\ Tokens'[P_FINAL_PACKAGED] = Tokens[P_FINAL_PACKAGED] + 1
              /\ h # NoTask
              /\ frame[h] = At(T_BULK_PACKAGE, "inc", 0)
              /\ Tokens[P_INDIVIDUALLY_PACKAGED] =
                     fire_pre[P_INDIVIDUALLY_PACKAGED] - 5
        /\ serial'[P_FINAL_PACKAGED] # serial[P_FINAL_PACKAGED] =>
              /\ serial'[P_FINAL_PACKAGED] = serial[P_FINAL_PACKAGED] + 1
              /\ serial'[P_INDIVIDUALLY_PACKAGED] =
                     serial[P_INDIVIDUALLY_PACKAGED] - 5

C21_BulkConservation == [][C21_Step]_vars

\* A Bulk Package fire has returned: one final package, made of the five
\* items the line held.
C21_Witness ==
    /\ serial[P_FINAL_PACKAGED] = 1
    /\ serial[P_INDIVIDUALLY_PACKAGED] = 0
    /\ Tokens = serial
    /\ pc["Packager"] = "bulk"
    /\ frame["Packager"] = Idle

\* ------------------------------------------------ loops in the topology
\* Two tasks that call fire_transition, on the reference net (the transitions
\* that take a Worker token, Rework Process among them) or on one of the
\* small nets, whose transition t0 may give back the arc it takes.
InitLoop == InitResource \/ InitKernel

LoopCaller(k) ==
    IF manufacturing_net.transitions[T_REWORK_PROCESS].name = "Rework Process"
    THEN Requester(k) ELSE Caller(k)

NextLoop == \E k \in Callers : LoopCaller(k) /\ UNCHANGED place_mutex

SpecLoop == InitLoop /\ [][NextLoop]_vars

RECURSIVE TotalFrom(_, _)
TotalFrom(m, p) == IF p >= MAX_PLACES THEN 0 ELSE m[p] + TotalFrom(m, p + 1)

\* Transition t takes from every place exactly what it gives back to it.
SelfLoop(t) == \A p \in PlaceIdx : InSum(t, p, 0) = OutSum(t, p, 0)

\* C22 -- Conservation for loops: when a fire of Rework Process has made all
\* its stores, the total number of tokens and the Worker count are what they
\* were when the fire took the net mutex; when a fire of a transition whose
\* input and output weights are equal place by place has made all its stores,
\* the whole marking is what it was.
C22_LoopConservation ==
    \A k \in Callers :
        frame[k].ph = "give" =>
            /\ manufacturing_net.transitions[frame[k].t].name = "Rework Process" =>
                  /\ TotalFrom(Tokens, 0) = TotalFrom(fire_pre, 0)
                  /\ Tokens[P_WORKER] = fire_pre[P_WORKER]
            /\ SelfLoop(frame[k].t) => Tokens = fire_pre

C22_ReworkDone ==
    \E k \in Callers :
        /\ frame[k] = At(T_REWORK_PROCESS, "give", 0)
        /\ manufacturing_net.transitions[T_REWORK_PROCESS].name = "Rework Process"
        /\ fire_pre[P_REWORK_BIN] = 1
        /\ Tokens[P_REWORK_BIN] = 0
        /\ Tokens[P_PROCESSED] = fire_pre[P_PROCESSED] + 1

C22_SelfLoopDone ==
    \E k \in Callers :
        /\ frame[k].ph = "give"
        /\ manufacturing_net.num_transitions = 2
        /\ HasIn(frame[k].t, 0)
        /\ SelfLoop(frame[k].t)

\* The fire in progress took the net mutex in a marking with these counts.
FiredFrom(k, t, counts) ==
    /\ manufacturing_net.net_mutex = k
    /\ frame[k].t = t
    /\ frame[k].ph # "call"
    /\ \A p \in DOMAIN counts : fire_pre[p] = counts[p]

\* C23 -- QC occupies a Worker token: a fire of Start QC 1 from Assembled = 1,
\* Worker = 3, QC Active 1 = 0 is not refused and ends with Assembled = 0,
\* Worker = 2, QC Active 1 = 1; a fire of Pass QC 1 from the marking so
\* obtained (empty post-QC1 buffer) is not refused and ends with Worker = 3,
\* QC Active 1 = 0 and post-QC1 buffer = 1.
C23_QCOccupiesWorker ==
    \A k \in Tasks :
        /\ FiredFrom(k, T_START_QC_1,
                     (P_ASSEMBLED :> 1) @@ (P_WORKER :> 3) @@ (P_QUALITY_CHECK_1 :> 0)) =>
              /\ frame[k].ph # "givefail"
              /\ frame[k].ph = "give" =>
                    /\ Tokens[P_ASSEMBLED] = 0
                    /\ Tokens[P_WORKER] = 2
                    /\ Tokens[P_QUALITY_CHECK_1] = 1
        /\ FiredFrom(k, T_PASS_QC_1,
                     (P_ASSEMBLED :> 0) @@ (P_WORKER :> 2) @@ (P_QUALITY_CHECK_1 :> 1)
                     @@ (P_POST_QC1_BUFFER :> 0)) =>
              /\ frame[k].ph # "givefail"
              /\ frame[k].ph = "give" =>
                    /\ Tokens[P_WORKER] = 3
                    /\ Tokens[P_QUALITY_CHECK_1] = 0
                    /\ Tokens[P_POST_QC1_BUFFER] = 1

\* Pass QC 1 has made its stores on the item that Start QC 1 took.
C23_Witness ==
    /\ FiredFrom("QualityControl", T_PASS_QC_1,
                 (P_ASSEMBLED :> 0) @@ (P_WORKER :> 2) @@ (P_QUALITY_CHECK_1 :> 1)
                 @@ (P_POST_QC1_BUFFER :> 0))
    /\ frame["QualityControl"].ph = "give"
    /\ serial[P_QUALITY_CHECK_1] = 1
    /\ Tokens[P_POST_QC1_BUFFER] = 1

\* Task k executes fire_transition(t) and holds the net mutex.
Firing(k, t) ==
    /\ manufacturing_net.net_mutex = k
    /\ frame[k].t = t
    /\ frame[k].ph # "call"

\* C24 -- Assembly requires two: a fire of Start Assembly that finds
\* Processed < 2 (Start Assembly is then not enabled) makes no store and
\* returns false; one that finds Processed >= 2 is not refused and ends with
\* 2 fewer Processed and 2 more Ready to Assemble; the Finish Assembly that
\* the assembler calls next finds those 2, is not refused and ends with 2
\* fewer Ready to Assemble and exactly 1 more Assembled.
C24_Step ==
    \A k \in Tasks :
        /\ Firing(k, T_START_ASSEMBLY) /\ fire_pre[P_PROCESSED] < 2 =>
              /\ ~Enabled(fire_pre, T_START_ASSEMBLY)
              /\ frame[k].ph \in {"check", "givefail"}
              /\ StepOf(k) => Tokens' = Tokens /\ frame'[k].ph \in {"givefail", "call"}
        /\ Firing(k, T_START_ASSEMBLY) /\ fire_pre[P_PROCESSED] >= 2 =>
              /\ frame[k].ph # "givefail"
              /\ frame[k].ph = "give" =>
                    /\ Tokens[P_PROCESSED] = fire_pre[P_PROCESSED] - 2
                    /\ Tokens[P_READY_TO_ASSEMBLE] = fire_pre[P_READY_TO_ASSEMBLE] + 2
        /\ pc["Assembler"] = "finish" /\ frame["Assembler"].ph = "call" =>
              Tokens[P_READY_TO_ASSEMBLE] >= 2
        /\ Firing(k, T_FINISH_ASSEMBLY) /\ pc[k] = "finish" =>
              /\ frame[k].ph # "givefail"
              /\ frame[k].ph = "give" =>
                    /\ Tokens[P_READY_TO_ASSEMBLE] = fire_pre[P_READY_TO_ASSEMBLE] - 2
                    /\ Tokens[P_ASSEMBLED] = fire_pre[P_ASSEMBLED] + 1

C24_AssemblyRequiresTwo == [][C24_Step]_vars

\* Start Assembly has been refused with one processed item, and later the
\* assembler has combined two.
C24_Witness ==
    /\ Firing("Assembler", T_FINISH_ASSEMBLY)
    /\ frame["Assembler"].ph = "give"
    /\ Tokens[P_ASSEMBLED] = 1
    /\ Tokens[P_READY_TO_ASSEMBLE] = 0

C24_Refused ==
    /\ Firing("Assembler", T_START_ASSEMBLY)
    /\ frame["Assembler"].ph = "givefail"
    /\ fire_pre[P_PROCESSED] = 1

\* C25 -- Operator input keys: the handler called with '+' adds exactly one
\* token to Raw Material and changes no other place, in none of its steps;
\* called with any other character it changes neither the net nor the dirty
\* flag.
C25_Step ==
    LET k == "Keyboard"
    IN  StepOf(k) \/ keys' # keys =>
            IF pc[k] = "wait"
            THEN IF pc'[k] = "dirty"
                 THEN /\ Tokens' = [Tokens EXCEPT ![P_RAW_MATERIAL] = @ + 1]
                      /\ manufacturing_net' =
                             StoreTokens(manufacturing_net, P_RAW_MATERIAL,
                                         Tokens'[P_RAW_MATERIAL])
                 ELSE /\ manufacturing_net' = manufacturing_net
                      /\ status_dirty' = status_dirty
            ELSE manufacturing_net' = manufacturing_net

C25_OperatorKeys == [][C25_Step]_vars

\* '+' has been handled while the loader's fire was between its check and its
\* debit: the injected token is in Raw Material.
C25_Witness ==
    /\ pc["Keyboard"] = "dirty"
    /\ injected = 1
    /\ Tokens[P_RAW_MATERIAL] = fire_pre[P_RAW_MATERIAL] + 1
    /\ frame["MaterialLoader"] = At(T_LOAD_MATERIAL, "dec", 0)

C25_OtherKey ==
    /\ keys = 1
    /\ injected = 0
    /\ pc["Keyboard"] = "wait"

\* Task k is between the take and the give of the net mutex.
Guarded(k) ==
    InFire(k) /\ frame[k].ph \in {"check", "dec", "inc", "give", "givefail"}

\* C26 -- The net guard is not abandoned: the net mutex is held exactly by
\* the task that is between the take and the give of a fire_transition call,
\* so it is free whenever no task is inside fire_transition; it changes hands
\* only by the take at the start of a call and by the one give of the path
\* the call is on (refused or fired), after which the call only returns; and
\* a call is refused only if the transition was not enabled when the call
\* took the mutex, so of the calls competing for the tokens of an enabled
\* transition the one that takes the mutex first returns true.
C26_Step ==
    /\ \A k \in Tasks : Guarded(k) <=> manufacturing_net.net_mutex = k
    /\ (\A k \in Tasks : ~InFire(k)) => manufacturing_net.net_mutex = NoTask
    /\ \A k \in Tasks :
          frame[k].ph = "givefail" => ~Enabled(fire_pre, frame[k].t)
    /\ manufacturing_net'.net_mutex # manufacturing_net.net_mutex =>
          \E k \in Tasks :
             \/ /\ manufacturing_net.net_mutex = NoTask
                /\ manufacturing_net'.net_mutex = k
                /\ frame[k].ph = "call"
                /\ Guarded(k)'
             \/ /\ manufacturing_net.net_mutex = k
                /\ manufacturing_net'.net_mutex = NoTask
                /\ \/ frame[k].ph = "give" /\ frame'[k].ph = "dirty"
                   \/ frame[k].ph = "givefail" /\ frame'[k] = Idle
    /\ \A k \in Tasks :
          frame[k].ph = "dirty" /\ frame'[k] # frame[k] => frame'[k] = Idle

C26_GuardNotAbandoned == [][C26_Step]_vars

\* Two calls competed for the tokens of one enabled transition: the first has
\* given the mutex back and is returning true, the second is refused.
C26_Witness ==
    /\ frame["Caller1"].ph = "dirty"
    /\ frame["Caller2"] = At(frame["Caller1"].t, "givefail", 0)
    /\ manufacturing_net.net_mutex = "Caller2"

\* ------------------------------------------------ registering arcs
\* The arc calls of a setup on a net of two places and two transitions, in any
\* order and any number: (trans_idx, place_idx, weight).
ArcNetCalls ==
    << PlaceCall("p0", 1), PlaceCall("p1", 0), TransCall("t0"), TransCall("t1") >>

InputArgs == {<<0, 0, 1>>, <<0, 1, 2>>, <<1, 0, 1>>}
OutputArgs == {<<0, 1, 1>>, <<1, 0, 2>>}

arcVars == <<status_dirty, pc, frame, payload, loaded, qc, keys, injected,
             requests, fire_pre, serial, serial_ok, cands, snap_ok,
             snap_inj, snap_loaded, checked, arg, place_mutex>>

call_add_arc_input ==
    \E a \in InputArgs :
        /\ manufacturing_net' = add_arc_input(manufacturing_net, a[1], a[2], a[3])
        /\ ret' = [call |-> "add_arc_input", value |-> a]
        /\ UNCHANGED arcVars

call_add_arc_output ==
    \E a \in OutputArgs :
        /\ manufacturing_net' = add_arc_output(manufacturing_net, a[1], a[2], a[3])
        /\ ret' = [call |-> "add_arc_output", value |-> a]
        /\ UNCHANGED arcVars

InitArcs == StartOn(Build(init_petri_net, ArcNetCalls), FALSE)

NextArcs == call_add_arc_input \/ call_add_arc_output

SpecArcs == InitArcs /\ [][NextArcs]_vars

\* The number of arcs stored in an array of slots.
ArcCount(slots) == Cardinality({i \in SlotIdx : slots[i] # -1})

\* The arcs of an array of slots fill its first slots.
Packed(slots) == \A i \in SlotIdx : slots[i] # -1 <=> i < ArcCount(slots)

\* C27 -- Arc overflow: the arcs of a transition fill its first slots in the
\* order of the calls; add_arc_input (add_arc_output) on a transition with five
\* input (output) arcs changes nothing of the net; on one with n < 5 it stores
\* the given place and weight in slot n and changes nothing else.
C27_Step ==
    /\ \A t \in 0 .. (manufacturing_net.num_transitions - 1) :
          /\ Packed(manufacturing_net.transitions[t].input_places)
          /\ Packed(manufacturing_net.transitions[t].output_places)
    /\ ret'.call = "add_arc_input" =>
          LET t == ret'.value[1]
              n == ArcCount(manufacturing_net.transitions[t].input_places)
          IN  manufacturing_net' =
                  IF n = ARC_SLOTS THEN manufacturing_net
                  ELSE [manufacturing_net EXCEPT
                            !.transitions[t].input_places[n] = ret'.value[2],
                            !.transitions[t].input_weights[n] = ret'.value[3]]
    /\ ret'.call = "add_arc_output" =>
          LET t == ret'.value[1]
              n == ArcCount(manufacturing_net.transitions[t].output_places)
          IN  manufacturing_net' =
                  IF n = ARC_SLOTS THEN manufacturing_net
                  ELSE [manufacturing_net EXCEPT
                            !.transitions[t].output_places[n] = ret'.value[2],
                            !.transitions[t].output_weights[n] = ret'.value[3]]

C27_ArcOverflow == [][C27_Step]_vars

\* A sixth input arc, other than the fifth, has been offered to t0, which
\* keeps its five.
C27_Witness ==
    /\ ret.call = "add_arc_input"
    /\ ret.value = <<0, 1, 2>>
    /\ ArcCount(manufacturing_net.transitions[0].input_places) = ARC_SLOTS
    /\ manufacturing_net.transitions[0].input_places[ARC_SLOTS - 1] = 0
    /\ manufacturing_net.transitions[0].input_weights[ARC_SLOTS - 1] = 1
    /\ ArcCount(manufacturing_net.transitions[1].output_places) = 2

\* Where the router may stand after a step, given where it stands: an
\* iteration begins at check_select and ends when the router is back there.
RouterNext(at) ==
    CASE at = "check_select" -> {"check_select", "fire_select", "check_skip"}
      [] at = "fire_select" -> {"fire_select", "painting", "select_failed"}
      [] at = "check_skip" -> {"check_skip", "fire_skip", "check_select"}
      [] at = "fire_skip" -> {"fire_skip", "skip_failed", "check_select"}
      [] OTHER -> {"check_select"}

\* C28 -- Router choice: an iteration of the router goes from its check either
\* to the fire of Select to Paint or to the check and fire of Skip Paint, the
\* choice being made before any fire, and back to the next iteration after
\* the one fire call it made; the router stores token counts only inside that
\* fire; a fire that succeeds has taken exactly one token from the post-QC1
\* buffer and put exactly one into Painted (Select to Paint) or into Ready for
\* Individual Package (Skip Paint), leaving the other as it was.
C28_Step ==
    LET k == "PainterRouter"
        sel == pc[k] = "fire_select"
    IN  /\ pc'[k] \in RouterNext(pc[k]) \cup {pc[k]}
        /\ pc[k] \notin {"fire_select", "fire_skip"} =>
              /\ ~Firing(k, frame[k].t)
              /\ StepOf(k) => Tokens' = Tokens /\ manufacturing_net'.net_mutex # k
        /\ pc[k] \in {"fire_select", "fire_skip"} /\ frame[k] # Idle =>
              /\ frame[k].t = (IF sel THEN T_SELECT_TO_PAINT ELSE T_SKIP_PAINT)
              /\ frame'[k] = Idle => pc'[k] \notin {"fire_select", "fire_skip"}
        /\ Firing(k, frame[k].t) /\ frame[k].ph = "give" =>
              /\ Tokens[P_POST_QC1_BUFFER] = fire_pre[P_POST_QC1_BUFFER] - 1
              /\ Tokens[P_PAINTED] =
                     fire_pre[P_PAINTED] + (IF sel THEN 1 ELSE 0)
              /\ Tokens[P_READY_FOR_INDIVIDUAL_PACKAGE] =
                     fire_pre[P_READY_FOR_INDIVIDUAL_PACKAGE] + (IF sel THEN 0 ELSE 1)
        /\ StepOf(k) =>
              \/ Tokens' = Tokens
              \/ /\ frame[k].ph = "dec"
                 /\ Tokens' = [Tokens EXCEPT ![P_POST_QC1_BUFFER] = @ - 1]
              \/ /\ frame[k].ph = "inc"
                 /\ Tokens' = [Tokens EXCEPT
                        ![IF sel THEN P_PAINTED
                          ELSE P_READY_FOR_INDIVIDUAL_PACKAGE] = @ + 1]

C28_RouterChoice == [][C28_Step]_vars

\* The router has chosen to skip and moved the one buffered item to Ready for
\* Individual Package; Painted has not received it.
C28_Witness ==
    /\ pc["PainterRouter"] = "fire_skip"
    /\ frame["PainterRouter"] = At(T_SKIP_PAINT, "give", 0)
    /\ fire_pre[P_POST_QC1_BUFFER] = 1
    /\ Tokens[P_POST_QC1_BUFFER] = 0
    /\ Tokens[P_PAINTED] = fire_pre[P_PAINTED]

\* C29 -- The snapshot is read-only: no step of build_status_payload changes
\* a token count or any other part of the net; its reads append the count of
\* place 0, then of place 1, and so on up to the last registered place; the
\* only shared state it changes is the dirty flag, by its last step, which
\* sets it to false.
C29_Step ==
    LET k == "StatusServer"
        n == IF pc[k] = "accept" THEN 0 ELSE Len(payload)
    IN  StepOf(k) =>
            /\ manufacturing_net' = manufacturing_net
            /\ IF pc[k] = "clear"
               THEN /\ Len(payload) = manufacturing_net.num_places
                    /\ payload' = payload
                    /\ status_dirty' = FALSE
               ELSE /\ Len(payload') = n + 1
                    /\ payload'[n + 1] = Tokens[n]
                    /\ \A j \in 1 .. n : payload'[j] = payload[j]
                    /\ status_dirty' = status_dirty

C29_SnapshotReadOnly == [][C29_Step]_vars

\* A snapshot taken after Start QC 1 had returned: it lists the 15 places, the
\* flag that fire had raised is false, and the net holds what it held.
C29_Witness ==
    /\ pc["StatusServer"] = "accept"
    /\ requests = 1
    /\ Len(payload) = MAX_PLACES
    /\ payload[P_QUALITY_CHECK_1 + 1] = 1
    /\ payload[P_WORKER + 1] = 2
    /\ frame["QualityControl"] = Idle
    /\ Tokens[P_QUALITY_CHECK_1] = 1
    /\ ~status_dirty

\* ------------------------------------------------ the end of the flow
\* The line near the end of its raw material, without the operator: all but
\* one of the 20 raw items have been loaded, nine pairs have been
\* assembled, checked and packaged (one bulk package and four single ones),
\* and one processed item waits for a partner.  Every worker takes its steps
\* again and again (each delays between its calls, so none is shut out).
FlowMarking ==
    [SetupMarking EXCEPT ![P_RAW_MATERIAL] = 1,
                         ![P_PROCESSED] = 1,
                         ![P_INDIVIDUALLY_PACKAGED] = 4,
                         ![P_FINAL_PACKAGED] = 1]

InitFlow == StartOn(WithMarking(setup_manufacturing_process, FlowMarking), FALSE)

FlowStep(k) == TaskStep(k) /\ UNCHANGED place_mutex

NextFlow == \E k \in Workers : FlowStep(k)

SpecFlow ==
    InitFlow /\ [][NextFlow]_vars /\ \A k \in Workers : SF_vars(FlowStep(k))

\* No fire is in the middle of its stores, and no transition is enabled.
Dead ==
    /\ Tokens = serial
    /\ \A t \in 0 .. (manufacturing_net.num_transitions - 1) : ~Enabled(Tokens, t)

\* C30 -- Termination of the flow: without operator injection only finitely
\* many calls of fire_transition return true, and the line
\* reaches a marking in which no transition is enabled; from then on no
\* transition is ever enabled again, no fire passes its enablement check (every
\* fire returns false) and no token count changes.
C30_DeadStep ==
    Dead => /\ Dead'
            /\ Tokens' = Tokens
            /\ \A k \in Tasks : frame'[k].ph \notin {"dec", "inc", "give"}

\* A call of fire_transition returns true.
ReturnsTrue == \E k \in Tasks : frame[k].ph = "dirty" /\ frame'[k] = Idle

C30_FinitelyMany == <>[][~ReturnsTrue]_vars

C30_Termination == C30_FinitelyMany /\ <>Dead /\ [][C30_DeadStep]_vars

\* The line has stopped after the last pair went through both checks and
\* completed the second bulk package, and a later fire is being refused.
C30_Witness ==
    /\ Dead
    /\ Tokens[P_FINAL_PACKAGED] = 2
    /\ Tokens[P_RAW_MATERIAL] = 0
    /\ frame["Packager"] = Idle
    /\ pc["Packager"] = "individual"

C30_DeadAfterRework ==
    /\ Dead
    /\ Tokens[P_PROCESSED] = 1
    /\ Tokens[P_FINAL_PACKAGED] = 1
    /\ Tokens[P_RAW_MATERIAL] = 0

\* ------------------------------------------------ material accounting
\* The raw items a token of place p stands for: an item before assembly is 1,
\* an assembled unit 2, a bulk package of five units 10; a Worker token is
\* no material.
Material(p) ==
    IF p \in {P_RAW_MATERIAL, P_READY_TO_PROCESS, P_PROCESSING, P_PROCESSED,
              P_READY_TO_ASSEMBLE} THEN 1
    ELSE IF p = P_FINAL_PACKAGED THEN 10
    ELSE IF p = P_WORKER THEN 0
    ELSE 2

RECURSIVE MaterialFrom(_, _)
MaterialFrom(m, p) ==
    IF p >= MAX_PLACES THEN 0 ELSE Material(p) * m[p] + MaterialFrom(m, p + 1)

\* C31 -- Material bound: without operator injection the weighted sum of the
\* token counts (1 per item before assembly, 2 per assembled unit, 10 per
\* bulk package) never exceeds the 20 raw items the line started with, in
\* mid-fire states too, and Final Packaged never exceeds 2.
C31_MaterialBound ==
    /\ MaterialFrom(Tokens, 0) <= 20
    /\ Tokens[P_FINAL_PACKAGED] <= 2

\* All 20 raw items have ended in two bulk packages.
C31_Witness ==
    /\ Tokens[P_FINAL_PACKAGED] = 2
    /\ MaterialFrom(Tokens, 0) = 20
    /\ Tokens[P_INDIVIDUALLY_PACKAGED] = 0
    /\ AllReturned

\* With the operator the bound moves with the injections that have landed.
C31_WithOperator == MaterialFrom(Tokens, 0) <= 20 + injected

HeldPlace(k) ==
    IF k = "Processor" /\ pc[k] = "finish" THEN P_PROCESSING
    ELSE IF k = "Assembler" /\ pc[k] = "finish" THEN P_READY_TO_ASSEMBLE
    ELSE IF k = "QualityControl" /\ pc[k] = "fire_result"
         THEN (IF qc.start_transition = T_START_QC_1
               THEN P_QUALITY_CHECK_1 ELSE P_QUALITY_CHECK_2)
    ELSE -1

\* C33 -- Finish after start always succeeds: while a worker stands between
\* its own successful start fire and the return of its finish fire, the place
\* of its activity holds what the finish takes until that fire debits it, so
\* the fire of Finish Processing, of Finish Assembly and of the QC worker's
\* Pass or Fail is never refused; the QC worker never reaches its 'Failed to
\* complete QC check' branch; and its Pass or Fail fire puts back the Worker
\* token and leaves the QC place empty.
C33_FinishSucceeds ==
    /\ pc["QualityControl"] # "result_failed"
    /\ \A k \in {"Processor", "Assembler", "QualityControl"} :
          HeldPlace(k) # -1 =>
              /\ frame[k].ph # "givefail"
              /\ frame[k].ph \in {"call", "check"} =>
                    Tokens[HeldPlace(k)] =
                        (IF k = "Assembler" THEN 2 ELSE 1)
              /\ k = "QualityControl" /\ frame[k].ph = "give" =>
                    /\ Tokens[HeldPlace(k)] = 0
                    /\ Tokens[P_WORKER] = fire_pre[P_WORKER] + 1

\* The QC worker has failed the unit it held: its place is empty, the unit is
\* in the rework bin and the three Worker tokens are free.
C33_Witness ==
    /\ pc["QualityControl"] = "fire_result"
    /\ frame["QualityControl"] = At(T_FAIL_QC_1, "give", 0)
    /\ Tokens[P_QUALITY_CHECK_1] = 0
    /\ Tokens[P_REWORK_BIN] = 1
    /\ Tokens[P_WORKER] = 3

\* C34 -- No check-then-fire failure: the fire of the start transition that
\* the QC worker makes after its is_transition_enabled test returned true, and
\* the fire of Select to Paint or Skip Paint that the router makes after its
\* test returned true, are never refused; the QC worker's 'Failed to start'
\* branch and the router's two 'Failed' branches are never reached.
C34_NoCheckThenFireFailure ==
    /\ pc["QualityControl"] # "start_failed"
    /\ pc["PainterRouter"] \notin {"select_failed", "skip_failed"}
    /\ pc["QualityControl"] = "fire_start" =>
          frame["QualityControl"].ph # "givefail"
    /\ pc["PainterRouter"] \in {"fire_select", "fire_skip"} =>
          frame["PainterRouter"].ph # "givefail"

\* The QC worker's test of Start QC 1 has returned true and it waits for the
\* net mutex, which the reworker holds with the Worker token debited.
C34_Witness ==
    /\ pc["QualityControl"] = "fire_start"
    /\ qc = ChoiceQC1
    /\ frame["QualityControl"] = Idle
    /\ frame["Reworker"] = At(T_REWORK_PROCESS, "inc", 0)
    /\ Tokens[P_WORKER] = 2

C34_Fired ==
    /\ pc["QualityControl"] = "fire_start"
    /\ frame["QualityControl"] = At(T_START_QC_1, "give", 0)
    /\ Tokens[P_PROCESSED] = 1
    /\ pc["PainterRouter"] = "fire_skip"
    /\ frame["PainterRouter"] = Idle

\* C35 -- Individually Packaged is bounded: Individually Packaged never holds
\* more than 5 tokens, and only the packager's fires change it.
C35_Step ==
    /\ Tokens[P_INDIVIDUALLY_PACKAGED] <= 5
    /\ Tokens'[P_INDIVIDUALLY_PACKAGED] # Tokens[P_INDIVIDUALLY_PACKAGED] =>
          /\ StepOf("Packager")
          /\ Firing("Packager", frame["Packager"].t)

C35_IndividuallyPackagedBounded == [][C35_Step]_vars

\* The fifth single package is made while another unit is waiting; the
\* packager's next call is Bulk Package.
C35_Witness ==
    /\ frame["Packager"] = At(T_INDIVIDUAL_PACKAGE, "give", 0)
    /\ Tokens[P_INDIVIDUALLY_PACKAGED] = 5
    /\ Tokens[P_READY_FOR_INDIVIDUAL_PACKAGE] >= 1

\* C36 -- Mutual exclusion of firing: at most one task is between the take of
\* the net mutex (followed by the enablement re-check) and its give (after
\* the increment pass), and that task holds the net mutex; while it is there
\* no step of another worker stores a token count, so the passes of two
\* fires are never interleaved.
C36_Step ==
    /\ Cardinality({k \in Tasks : Guarded(k)}) <= 1
    /\ \A k \in Tasks :
          Guarded(k) =>
              /\ manufacturing_net.net_mutex = k
              /\ \A f \in (Workers \cup Callers) \ {k} :
                    StepOf(f) => /\ Tokens' = Tokens
                                 /\ ~Guarded(f)'

C36_MutualExclusion == [][C36_Step]_vars

\* The processor is between its debit and its credit while the loader, whose
\* transition is enabled, waits for the net mutex.
C36_Witness ==
    /\ frame["Processor"] = At(T_START_PROCESSING, "inc", 0)
    /\ frame["MaterialLoader"] = Idle
    /\ loaded < MaxLoads
    /\ Enabled(Tokens, T_LOAD_MATERIAL)
    /\ Cardinality({k \in Tasks : Guarded(k)}) = 1

\* The QC worker's fire of pass or fail has made its stores: the QC place is
\* empty and Worker is one higher than when the fire took the net mutex.
Released(place, pass, fail) ==
    /\ Firing("QualityControl", frame["QualityControl"].t)
    /\ frame["QualityControl"].t \in {pass, fail}
    /\ frame["QualityControl"].ph = "give"
    /\ Tokens[place] = 0
    /\ Tokens[P_WORKER] = fire_pre[P_WORKER] + 1

\* C37 -- Worker token is eventually returned: under fair scheduling, whenever
\* QC Active 1 (QC Active 2) holds a token, the QC worker eventually completes
\* a fire of Pass QC 1 or Fail QC 1 (Pass QC 2 or Fail QC 2) that leaves the
\* place empty and has credited the Worker token back.
C37_WorkerReturned ==
    /\ (Tokens[P_QUALITY_CHECK_1] >= 1)
           ~> Released(P_QUALITY_CHECK_1, T_PASS_QC_1, T_FAIL_QC_1)
    /\ (Tokens[P_QUALITY_CHECK_2] >= 1)
           ~> Released(P_QUALITY_CHECK_2, T_PASS_QC_2, T_FAIL_QC_2)

\* The second check of a painted unit has failed it and given the Worker
\* token back.
C37_Witness ==
    /\ Released(P_QUALITY_CHECK_2, T_PASS_QC_2, T_FAIL_QC_2)
    /\ frame["QualityControl"].t = T_FAIL_QC_2
    /\ Tokens[P_WORKER] = 3
    /\ Tokens[P_REWORK_BIN] = 1

=============================================================================
